---- MODULE Spec2Model ----
(***************************************************************************)
(* A model of the traffic-butter intersection simulator (app.js):          *)
(*   TrafficLight  - the green / yellow / all-red signal controller        *)
(*   TrafficMaster - the seeded event source                               *)
(*   Simulation    - vehicles of one scenario and the adaptive advisor     *)
(*                                                                         *)
(* Time is counted in units of 1/20 s, the common divisor of every time     *)
(* offset the program uses (0.05, 0.15, 0.4, 0.5 s) and of the driver's     *)
(* frame step.  Lengths are counted in tenths of a pixel (CAR_SPD = 1.6).   *)
(***************************************************************************)
EXTENDS Integers, Sequences, FiniteSets, TLC

(***************************************************************************)
(* CONFIG                                                                  *)
(***************************************************************************)
\* time units in a second: one unit is 0.05 s
UnitsPerSec == 100 \div 5

FIXED_GREEN == 15

YELLOW_DUR == 3

ALL_RED_DUR == 1

MIN_DUR == 5

MAX_DUR == 60

Arms == {"north", "south", "east", "west"}

LANE_MOVE == <<"left", "straight", "right">>

Moves == {"left", "straight", "right"}

OPP_D == [north |-> "south", south |-> "north", east |-> "west", west |-> "east"]

(***************************************************************************)
(* Phase catalog                                                           *)
(***************************************************************************)
FIXED_PHASE_SEQ == <<"n", "e", "s", "w">>

ALL_PHASES == {"n", "e", "s", "w", "ns_s", "ns_l", "ns_r", "ew_s", "ew_l", "ew_r"}

PHASE_NUM_MAP == <<"n", "e", "s", "w", "ns_s", "ns_l", "ns_r", "ew_s", "ew_l", "ew_r">>

\* null, for a phase key that is absent
NoPhase == "null"

phaseAllowsOthersRight(ph, dir, move) ==
    IF ph = "n" THEN (dir = "north") \/ (move = "right" /\ dir # "north")
    ELSE IF ph = "e" THEN (dir = "east") \/ (move = "right" /\ dir # "east")
    ELSE IF ph = "s" THEN (dir = "south") \/ (move = "right" /\ dir # "south")
    ELSE IF ph = "w" THEN (dir = "west") \/ (move = "right" /\ dir # "west")
    ELSE LET ns == dir = "north" \/ dir = "south"
             ew == dir = "east" \/ dir = "west"
         IN IF ph = "ns_s" THEN ns /\ move = "straight"
            ELSE IF ph = "ns_l" THEN ns /\ move = "left"
            ELSE IF ph = "ns_r" THEN ns /\ move = "right"
            ELSE IF ph = "ew_s" THEN ew /\ move = "straight"
            ELSE IF ph = "ew_l" THEN ew /\ move = "left"
            ELSE IF ph = "ew_r" THEN ew /\ move = "right"
            ELSE FALSE

phaseAllows(ph, dir, move) ==
    IF ph = "n" THEN (dir = "north") \/ (move = "left" /\ dir # "north")
    ELSE IF ph = "e" THEN (dir = "east") \/ (move = "left" /\ dir # "east")
    ELSE IF ph = "s" THEN (dir = "south") \/ (move = "left" /\ dir # "south")
    ELSE IF ph = "w" THEN (dir = "west") \/ (move = "left" /\ dir # "west")
    ELSE LET ns == dir = "north" \/ dir = "south"
             ew == dir = "east" \/ dir = "west"
         IN IF ph = "ns_s" THEN ns /\ move = "straight"
            ELSE IF ph = "ns_l" THEN ns /\ move = "left"
            ELSE IF ph = "ns_r" THEN ns /\ move = "right"
            ELSE IF ph = "ew_s" THEN ew /\ move = "straight"
            ELSE IF ph = "ew_l" THEN ew /\ move = "left"
            ELSE IF ph = "ew_r" THEN ew /\ move = "right"
            ELSE FALSE

(***************************************************************************)
(* TrafficLight.  A controller is a record; every method is an operator    *)
(* from the controller (and its arguments) to the controller after it.     *)
(***************************************************************************)
NewTrafficLight ==
    [ subPhase     |-> "green",
      timer        |-> 0,
      seqIdx       |-> 0,
      phaseKey     |-> FIXED_PHASE_SEQ[1],
      greenDur     |-> [ph \in ALL_PHASES |-> FIXED_GREEN],
      nextOverride |-> NoPhase ]

canGoYellowToo(L, dir, move) ==
    L.subPhase # "allred" /\ phaseAllows(L.phaseKey, dir, move)

canGo(L, dir, move) ==
    L.subPhase = "green" /\ phaseAllows(L.phaseKey, dir, move)

stateForNoAllRed(L, dir, move) ==
    IF ~phaseAllows(L.phaseKey, dir, move) THEN "red"
    ELSE IF L.subPhase = "allred" THEN "yellow"
    ELSE L.subPhase

stateFor(L, dir, move) ==
    IF ~phaseAllows(L.phaseKey, dir, move) THEN "red"
    ELSE IF L.subPhase = "allred" THEN "red"
    ELSE L.subPhase

\* the duration of the running sub-phase, in time units
subPhaseDur(L) ==
    IF L.subPhase = "green" THEN L.greenDur[L.phaseKey] * UnitsPerSec
    ELSE IF L.subPhase = "yellow" THEN YELLOW_DUR * UnitsPerSec
    ELSE ALL_RED_DUR * UnitsPerSec

\* indexOf in FIXED_PHASE_SEQ, 0-based, -1 when absent
seqIndexOf(ph) ==
    IF \E i \in 1..Len(FIXED_PHASE_SEQ) : FIXED_PHASE_SEQ[i] = ph
    THEN (CHOOSE i \in 1..Len(FIXED_PHASE_SEQ) : FIXED_PHASE_SEQ[i] = ph) - 1
    ELSE -1

advancePhaseNoRealign(L) ==
    IF L.nextOverride # NoPhase
    THEN [L EXCEPT !.phaseKey = L.nextOverride,
                   !.nextOverride = NoPhase,
                   !.subPhase = "green"]
    ELSE LET idx == (L.seqIdx + 1) % Len(FIXED_PHASE_SEQ)
         IN [L EXCEPT !.seqIdx = idx,
                      !.phaseKey = FIXED_PHASE_SEQ[idx + 1],
                      !.subPhase = "green"]

advancePhaseKeepsOverride(L) ==
    IF L.nextOverride # NoPhase
    THEN LET idx == seqIndexOf(L.nextOverride)
         IN [L EXCEPT !.phaseKey = L.nextOverride,
                      !.seqIdx = IF idx # -1 THEN idx ELSE L.seqIdx,
                      !.subPhase = "green"]
    ELSE LET idx == (L.seqIdx + 1) % Len(FIXED_PHASE_SEQ)
         IN [L EXCEPT !.seqIdx = idx,
                      !.phaseKey = FIXED_PHASE_SEQ[idx + 1],
                      !.subPhase = "green"]

\* the all-red -> green branch of tick
advancePhase(L) ==
    IF L.nextOverride # NoPhase
    THEN LET idx == seqIndexOf(L.nextOverride)
         IN [L EXCEPT !.phaseKey = L.nextOverride,
                      !.seqIdx = IF idx # -1 THEN idx ELSE L.seqIdx,
                      !.nextOverride = NoPhase,
                      !.subPhase = "green"]
    ELSE LET idx == (L.seqIdx + 1) % Len(FIXED_PHASE_SEQ)
         IN [L EXCEPT !.seqIdx = idx,
                      !.phaseKey = FIXED_PHASE_SEQ[idx + 1],
                      !.subPhase = "green"]

lightTickCarry(L, dt) ==
    LET T == [L EXCEPT !.timer = L.timer + dt]
    IN IF T.timer < subPhaseDur(T) THEN T
       ELSE LET Z == [T EXCEPT !.timer = T.timer - subPhaseDur(T)]
            IN IF Z.subPhase = "green" THEN [Z EXCEPT !.subPhase = "yellow"]
               ELSE IF Z.subPhase = "yellow" THEN [Z EXCEPT !.subPhase = "allred"]
               ELSE advancePhase(Z)

lightTickOneShot(L, dt) ==
    LET T == [L EXCEPT !.timer = L.timer + dt]
    IN IF T.timer < subPhaseDur(T) THEN T
       ELSE LET Z == [T EXCEPT !.timer = 0]
            IN IF Z.subPhase = "green"
               THEN [Z EXCEPT !.subPhase = "yellow", !.greenDur[Z.phaseKey] = FIXED_GREEN]
               ELSE IF Z.subPhase = "yellow" THEN [Z EXCEPT !.subPhase = "allred"]
               ELSE advancePhase(Z)

\* tick(dt): the controller after the call
lightTick(L, dt) ==
    LET T == [L EXCEPT !.timer = L.timer + dt]
    IN IF T.timer < subPhaseDur(T) THEN T
       ELSE LET Z == [T EXCEPT !.timer = 0]
            IN IF Z.subPhase = "green" THEN [Z EXCEPT !.subPhase = "yellow"]
               ELSE IF Z.subPhase = "yellow" THEN [Z EXCEPT !.subPhase = "allred"]
               ELSE advancePhase(Z)

lightTickEndsAtGreen(L, dt) ==
    IF L.timer + dt >= subPhaseDur(L) /\ L.subPhase = "green"
    THEN L.phaseKey ELSE NoPhase

\* tick(dt): the key handed to onPhaseEnd by the call, NoPhase when it is not called
lightTickEnds(L, dt) ==
    IF L.timer + dt >= subPhaseDur(L) /\ L.subPhase = "yellow"
    THEN L.phaseKey ELSE NoPhase

(***************************************************************************)
(* Arguments of setNextPhase.  A phase id is a JavaScript number or a       *)
(* string; a duration is a number in tenths of a second, or not a number.   *)
(***************************************************************************)
NumId(n) == [type |-> "number", num |-> n, str |-> ""]

StrId(s) == [type |-> "string", num |-> 0, str |-> s]

NumDur(tenths) == [isNum |-> TRUE, tenths |-> tenths]

NaNDur == [isNum |-> FALSE, tenths |-> 0]

phaseKeyOfDefaulting(phaseId) ==
    IF phaseId.type = "number"
    THEN IF phaseId.num \in 1..Len(PHASE_NUM_MAP) THEN PHASE_NUM_MAP[phaseId.num]
         ELSE PHASE_NUM_MAP[1]
    ELSE IF phaseId.str \in ALL_PHASES THEN phaseId.str ELSE NoPhase

\* PHASE_NUM_MAP[phaseId] for a number, the key itself for a known string, else null
phaseKeyOf(phaseId) ==
    IF phaseId.type = "number"
    THEN IF phaseId.num \in 1..Len(PHASE_NUM_MAP) THEN PHASE_NUM_MAP[phaseId.num]
         ELSE NoPhase
    ELSE IF phaseId.str \in ALL_PHASES THEN phaseId.str ELSE NoPhase

\* Math.round of a value given in tenths: floor(x + 0.5)
roundTenths(t) == (t + 5) \div 10

Max(a, b) == IF a >= b THEN a ELSE b

Min(a, b) == IF a <= b THEN a ELSE b

clampDurationNoUpper(duration) ==
    LET n == IF duration.isNum /\ duration.tenths # 0
             THEN roundTenths(duration.tenths) ELSE FIXED_GREEN
    IN Max(MIN_DUR, n)

clampDurationNoLower(duration) ==
    LET n == IF duration.isNum /\ duration.tenths # 0
             THEN roundTenths(duration.tenths) ELSE FIXED_GREEN
    IN Min(MAX_DUR, n)

\* Math.max(5, Math.min(60, Math.round(Number(duration) || FIXED_GREEN)))
clampDuration(duration) ==
    LET n == IF duration.isNum /\ duration.tenths # 0
             THEN roundTenths(duration.tenths) ELSE FIXED_GREEN
    IN Max(MIN_DUR, Min(MAX_DUR, n))

setNextPhase(L, phaseId, duration) ==
    LET phKey == phaseKeyOf(phaseId)
    IN IF phKey = NoPhase THEN L
       ELSE [L EXCEPT !.greenDur[phKey] = clampDuration(duration),
                      !.nextOverride = phKey]

(***************************************************************************)
(* Geometry, in tenths of a pixel                                          *)
(***************************************************************************)
CANVAS_W == 5200

LANE_W == 200

N_LANES == 3

BOX_HALF == 560

CAR_L == 170

CAR_GAP == 50

CAR_SPD == 16

MID == CANVAS_W \div 2

\* (N_LANES - lane - 0.5) * LANE_W
laneOff(lane) == ((2 * (N_LANES - lane) - 1) * LANE_W) \div 2

laneX(dir, lane) == IF dir = "north" THEN MID - laneOff(lane) ELSE MID + laneOff(lane)

laneY(dir, lane) == IF dir = "east" THEN MID - laneOff(lane) ELSE MID + laneOff(lane)

\* (i + 0.5) * LANE_W with i the lane, lowered by N_LANES when it is at least N_LANES
exitOff(lane) ==
    LET i == IF lane >= N_LANES THEN lane - N_LANES ELSE lane
    IN ((2 * i + 1) * LANE_W) \div 2

exitLaneX(dir, lane) == IF dir = "north" THEN MID + exitOff(lane) ELSE MID - exitOff(lane)

exitLaneY(dir, lane) == IF dir = "east" THEN MID - exitOff(lane) ELSE MID + exitOff(lane)

spawnPos(dir, lane) ==
    LET far == CANVAS_W + 300
    IN IF dir = "north" THEN [x |-> laneX("north", lane), y |-> far]
       ELSE IF dir = "south" THEN [x |-> laneX("south", lane), y |-> -300]
       ELSE IF dir = "east" THEN [x |-> -300, y |-> laneY("east", lane)]
       ELSE [x |-> far, y |-> laneY("west", lane)]

\* BOX_HALF + CAR_L * 0.5 + 3, projected on the arm's travel axis
stopCoord(dir) ==
    LET m == BOX_HALF + CAR_L \div 2 + 30
    IN IF dir = "north" THEN [axis |-> "y", val |-> MID + m]
       ELSE IF dir = "south" THEN [axis |-> "y", val |-> MID - m]
       ELSE IF dir = "east" THEN [axis |-> "x", val |-> MID - m]
       ELSE [axis |-> "x", val |-> MID + m]

pastStopCentre(v) ==
    LET s == stopCoord(v.dir)
    IN IF v.dir = "north" THEN v.y <= s.val
       ELSE IF v.dir = "south" THEN v.y >= s.val
       ELSE IF v.dir = "east" THEN v.x >= s.val
       ELSE v.x <= s.val

pastStop(v) ==
    LET s == stopCoord(v.dir)
        half == CAR_L \div 2
    IN IF v.dir = "north" THEN (v.y - half) <= s.val
       ELSE IF v.dir = "south" THEN (v.y + half) >= s.val
       ELSE IF v.dir = "east" THEN (v.x + half) >= s.val
       ELSE (v.x - half) <= s.val

(***************************************************************************)
(* Turning paths.  buildPath fixes the exit arm, the exit lane and the end  *)
(* point p3 of the curve.  The curve itself is floating-point: a vehicle    *)
(* always crosses its stop coordinate on the same point of its lane (it     *)
(* starts at spawnPos and only ever moves by CAR_SPD), so the curve, its    *)
(* sampled length bezLen and the number of _turn calls that take turnT to 1 *)
(* depend on the lane alone; pathTicks is that number, ceil(bezLen /        *)
(* CAR_SPD), evaluated with the program's arithmetic.  The position along   *)
(* the curve is not tracked.                                                *)
(***************************************************************************)
exitDirMap ==
    [north |-> <<"west", "north", "east">>,
     east  |-> <<"north", "east", "south">>,
     south |-> <<"east", "south", "west">>,
     west  |-> <<"south", "west", "north">>]

exitLaneMap ==
    [north |-> <<2, -2, 3>>,
     east  |-> <<-3, 4, -1>>,
     south |-> <<2, -2, 3>>,
     west  |-> <<-3, 4, -1>>]

pathTicks == <<22, 83, 70>>

buildPath(v) ==
    LET exitDir == exitDirMap[v.dir][v.lane + 1]
        exitLane == exitLaneMap[v.dir][v.lane + 1]
        edge == BOX_HALF + 10
        p3 == IF exitDir = "north" THEN [x |-> exitLaneX("north", exitLane), y |-> MID - edge]
              ELSE IF exitDir = "south" THEN [x |-> exitLaneX("south", exitLane), y |-> MID + edge]
              ELSE IF exitDir = "east" THEN [x |-> MID + edge, y |-> exitLaneY("east", exitLane)]
              ELSE [x |-> MID - edge, y |-> exitLaneY("west", exitLane)]
    IN [exitDir |-> exitDir, exitLane |-> exitLane, p3 |-> p3, ticks |-> pathTicks[v.lane + 1]]

(***************************************************************************)
(* Vehicle and Simulation.  A scenario is a record; its vehicles are the    *)
(* array this.vehicles in order.  waitSec and simTime are in time units.    *)
(***************************************************************************)
NewVehicle(id, dir, lane) ==
    [ id       |-> id,
      dir      |-> dir,
      lane     |-> lane,
      move     |-> LANE_MOVE[lane + 1],
      x        |-> spawnPos(dir, lane).x,
      y        |-> spawnPos(dir, lane).y,
      phase    |-> "approach",
      stopped  |-> FALSE,
      waiting  |-> FALSE,
      waitSec  |-> 0,
      done     |-> FALSE,
      turnStep |-> 0,
      exitDir  |-> "null",
      exitLane |-> 0 ]

NewSimulation(mode) ==
    [ mode         |-> mode,
      light        |-> NewTrafficLight,
      vehicles     |-> <<>>,
      simTime      |-> 0,
      totalPassed  |-> 0,
      totalWaitSec |-> 0,
      passedCount  |-> 0,
      aiPending    |-> FALSE,
      setCalls     |-> 0 ]     \* calls of light.setNextPhase made by _callAI

simSpawn(S, id, dir, lane) ==
    [S EXCEPT !.vehicles = Append(S.vehicles, NewVehicle(id, dir, lane))]

Infinity == 1000000

\* the bumper-to-bumper gap of vehicle i to the nearest approach vehicle ahead in its lane
gapOf(S, i) ==
    LET v == S.vehicles[i]
        gapTo(o) == IF v.dir = "north" THEN v.y - o.y - CAR_L
                    ELSE IF v.dir = "south" THEN o.y - v.y - CAR_L
                    ELSE IF v.dir = "east" THEN o.x - v.x - CAR_L
                    ELSE v.x - o.x - CAR_L
        gaps == { gapTo(S.vehicles[j]) :
                    j \in { k \in 1..Len(S.vehicles) :
                              /\ k # i
                              /\ S.vehicles[k].dir = v.dir
                              /\ S.vehicles[k].lane = v.lane
                              /\ S.vehicles[k].phase = "approach"
                              /\ gapTo(S.vehicles[k]) >= 0 } }
    IN IF gaps = {} THEN Infinity ELSE CHOOSE g \in gaps : \A h \in gaps : g <= h

\* one CAR_SPD step along the travel axis of dir
stepAlong(v, dir) ==
    IF dir = "north" THEN [v EXCEPT !.y = v.y - CAR_SPD]
    ELSE IF dir = "south" THEN [v EXCEPT !.y = v.y + CAR_SPD]
    ELSE IF dir = "east" THEN [v EXCEPT !.x = v.x + CAR_SPD]
    ELSE [v EXCEPT !.x = v.x - CAR_SPD]

approachAnyLight(S, i, dt) ==
    LET v == S.vehicles[i]
        green == canGo(S.light, v.dir, v.move)
        atStop == pastStop(v)
    IN IF atStop /\ ~green
       THEN [v EXCEPT !.stopped = TRUE, !.waiting = TRUE, !.waitSec = v.waitSec + dt]
       ELSE IF gapOf(S, i) < CAR_GAP
       THEN [v EXCEPT !.stopped = TRUE, !.waiting = FALSE]
       ELSE LET m == stepAlong([v EXCEPT !.stopped = FALSE, !.waiting = FALSE], v.dir)
            IN IF pastStop(m)
               THEN LET path == buildPath(m)
                    IN [m EXCEPT !.phase = "turning", !.turnStep = 0,
                                 !.exitDir = path.exitDir, !.exitLane = path.exitLane]
               ELSE m

approachGapWaits(S, i, dt) ==
    LET v == S.vehicles[i]
        green == canGo(S.light, v.dir, v.move)
        atStop == pastStop(v)
    IN IF atStop /\ ~green
       THEN [v EXCEPT !.stopped = TRUE, !.waiting = TRUE, !.waitSec = v.waitSec + dt]
       ELSE IF gapOf(S, i) < CAR_GAP
       THEN [v EXCEPT !.stopped = TRUE, !.waiting = FALSE, !.waitSec = v.waitSec + dt]
       ELSE LET m == stepAlong([v EXCEPT !.stopped = FALSE, !.waiting = FALSE], v.dir)
            IN IF pastStop(m) /\ green
               THEN LET path == buildPath(m)
                    IN [m EXCEPT !.phase = "turning", !.turnStep = 0,
                                 !.exitDir = path.exitDir, !.exitLane = path.exitLane]
               ELSE m

\* _approach(v, dt) for vehicle i: the vehicle after the call
approach(S, i, dt) ==
    LET v == S.vehicles[i]
        green == canGo(S.light, v.dir, v.move)
        atStop == pastStop(v)
    IN IF atStop /\ ~green
       THEN [v EXCEPT !.stopped = TRUE, !.waiting = TRUE, !.waitSec = v.waitSec + dt]
       ELSE IF gapOf(S, i) < CAR_GAP
       THEN [v EXCEPT !.stopped = TRUE, !.waiting = FALSE]
       ELSE LET m == stepAlong([v EXCEPT !.stopped = FALSE, !.waiting = FALSE], v.dir)
            IN IF pastStop(m) /\ green
               THEN LET path == buildPath(m)
                    IN [m EXCEPT !.phase = "turning", !.turnStep = 0,
                                 !.exitDir = path.exitDir, !.exitLane = path.exitLane]
               ELSE m

\* _turn(v): the vehicle after the call
turn(v) ==
    LET path == buildPath(v)
        n == v.turnStep + 1
    IN IF n >= path.ticks
       THEN [v EXCEPT !.turnStep = n, !.phase = "exit", !.x = path.p3.x, !.y = path.p3.y]
       ELSE [v EXCEPT !.turnStep = n]

exitStepNeverDone(v) == stepAlong(v, v.exitDir)

\* _exit(v): the vehicle after the call; done when it has left the canvas by 50 px
exitStep(v) ==
    LET m == stepAlong(v, v.exitDir)
    IN IF m.x < -500 \/ m.x > CANVAS_W + 500 \/ m.y < -500 \/ m.y > CANVAS_W + 500
       THEN [m EXCEPT !.done = TRUE] ELSE m

moveVehicleCountOnly(S, i, dt) ==
    LET v == S.vehicles[i]
        m == IF v.phase = "exit" THEN exitStep(v)
             ELSE IF v.phase = "turning" THEN turn(v)
             ELSE approach(S, i, dt)
        T == [S EXCEPT !.vehicles[i] = m]
    IN IF m.done
       THEN [T EXCEPT !.totalPassed = S.totalPassed + 1,
                      !.passedCount = S.passedCount + 1]
       ELSE T

\* _move(v, dt) for vehicle i: the scenario after the call
moveVehicle(S, i, dt) ==
    LET v == S.vehicles[i]
        m == IF v.phase = "exit" THEN exitStep(v)
             ELSE IF v.phase = "turning" THEN turn(v)
             ELSE approach(S, i, dt)
        T == [S EXCEPT !.vehicles[i] = m]
    IN IF m.done
       THEN [T EXCEPT !.totalPassed = S.totalPassed + 1,
                      !.totalWaitSec = S.totalWaitSec + m.waitSec,
                      !.passedCount = S.passedCount + 1]
       ELSE T

\* the loop of tick over this.vehicles, from vehicle i on; T is the scenario
\* after the _move call of vehicle i
RECURSIVE moveFrom(_, _, _)
moveFrom(S, i, dt) ==
    IF i > Len(S.vehicles) THEN S
    ELSE CHOOSE R \in { moveFrom(T, i + 1, dt) :
                          T \in {IF S.vehicles[i].done THEN S ELSE moveVehicle(S, i, dt)} } : TRUE

simTickAdvised(S, dt) ==
    LET T == lightTick(S.light, dt)
        A == [S EXCEPT !.simTime = S.simTime + dt,
                       !.light = IF lightTickEnds(S.light, dt) # NoPhase
                                 THEN setNextPhase(T, NumId(2), NumDur(80)) ELSE T]
        B == moveFrom(A, 1, dt)
    IN [B EXCEPT !.vehicles = SelectSeq(B.vehicles, LAMBDA v : ~v.done)]

\* tick(dt): the scenario after the call (the phase-end callback apart)
simTick(S, dt) ==
    LET A == [S EXCEPT !.simTime = S.simTime + dt, !.light = lightTick(S.light, dt)]
        B == moveFrom(A, 1, dt)
    IN [B EXCEPT !.vehicles = SelectSeq(B.vehicles, LAMBDA v : ~v.done)]

\* avgWait(): the quotient as a fraction of time units
avgWait(S) ==
    IF S.passedCount # 0 THEN [num |-> S.totalWaitSec, den |-> S.passedCount]
    ELSE [num |-> 0, den |-> 1]

(***************************************************************************)
(* The advisor, Simulation._callAI.  The call runs to its first await in    *)
(* the caller's turn (callAI); the rest runs when the fetch settles         *)
(* (aiSettle).  A request in flight is the closure of the suspended call.   *)
(***************************************************************************)
AI_MIN == 5

AI_MAX == 45

clamp(n, lo, hi) == Max(lo, Min(hi, n))

\* laneQueues(): approach vehicles of an arm and movement
laneQueue(S, dir, move) ==
    Cardinality({i \in 1..Len(S.vehicles) :
                    /\ S.vehicles[i].phase = "approach"
                    /\ S.vehicles[i].dir = dir
                    /\ S.vehicles[i].move = move})

ArmOfId == <<"north", "east", "south", "west">>

\* demand[id] for id in 1..4, in quarters: straight + right + 0.25 * left
demand4(S, id) ==
    4 * (laneQueue(S, ArmOfId[id], "straight") + laneQueue(S, ArmOfId[id], "right"))
      + laneQueue(S, ArmOfId[id], "left")

\* the numeric id of the phase that ended, 0 when PHASE_NUM_MAP does not hold it
curIdOf(contextPhase) ==
    IF \E i \in 1..Len(PHASE_NUM_MAP) : PHASE_NUM_MAP[i] = contextPhase
    THEN CHOOSE i \in 1..Len(PHASE_NUM_MAP) : PHASE_NUM_MAP[i] = contextPhase
    ELSE 0

fixedNextIdOfNoWrap(contextPhase) ==
    LET curId == curIdOf(contextPhase)
        cur == IF curId \in 1..4 THEN curId ELSE 1
    IN cur + 1

\* cw[(cw.indexOf(cur) + 1) % 4] with cur = curId when it is in 1..4, else 1
fixedNextIdOf(contextPhase) ==
    LET curId == curIdOf(contextPhase)
        cur == IF curId \in 1..4 THEN curId ELSE 1
    IN (cur % 4) + 1

targetDurOfNoClamp(load4) == (800 + 45 * load4 + 50) \div 100

\* clamp(Math.round(8 + loadNext * 1.8), 5, 45)
targetDurOf(load4) == clamp((800 + 45 * load4 + 50) \div 100, AI_MIN, AI_MAX)

\* no request in flight; a request awaits the response ("headers", while the
\* 9 s abort timer runs) and then its body ("body", the timer cleared)
NoReq == [live |-> FALSE, nextId |-> 0, targetDur |-> 0, stage |-> "none"]

\* this.light.setNextPhase(fixedNextId, dur), counted
pushNext(S, nextId, dur) ==
    [S EXCEPT !.light = setNextPhase(S.light, NumId(nextId), NumDur(dur * 10)),
              !.setCalls = S.setCalls + 1]

heuristicFixed(S, R) == pushNext(S, R.nextId, FIXED_GREEN)

\* heuristic(reason)
heuristic(S, R) == pushNext(S, R.nextId, R.targetDur)

callAINoGuard(S, contextPhase, ready) ==
    LET nextId == fixedNextIdOf(contextPhase)
        R == [live |-> TRUE, nextId |-> nextId,
              targetDur |-> targetDurOf(demand4(S, nextId)), stage |-> "headers"]
    IN IF ~ready
       THEN [sim |-> heuristic(S, R), req |-> NoReq, issued |-> FALSE]
       ELSE [sim |-> [S EXCEPT !.aiPending = TRUE], req |-> R, issued |-> TRUE]

\* _callAI(contextPhase) up to its first await: the scenario and the request in flight
callAI(S, contextPhase, ready) ==
    IF S.aiPending THEN [sim |-> S, req |-> NoReq, issued |-> FALSE]
    ELSE LET nextId == fixedNextIdOf(contextPhase)
             R == [live |-> TRUE, nextId |-> nextId,
                   targetDur |-> targetDurOf(demand4(S, nextId)), stage |-> "headers"]
         IN IF ~ready
            THEN [sim |-> heuristic(S, R), req |-> NoReq, issued |-> FALSE]
            ELSE [sim |-> [S EXCEPT !.aiPending = TRUE], req |-> R, issued |-> TRUE]

\* What the fetch settles with: a failure (timeout, transport error, HTTP
\* status not ok, unparsable body), or data with a duration and the
\* improved_over_fixed field ("true", "false", or "absent" when not a boolean).
NoResponse == [ok |-> FALSE, duration |-> NaNDur, improved |-> "none", nextPhase |-> 0]

FailedResponse == [ok |-> FALSE, duration |-> NaNDur, improved |-> "absent", nextPhase |-> 0]

DataResponse(duration, improved, nextPhase) ==
    [ok |-> TRUE, duration |-> duration, improved |-> improved, nextPhase |-> nextPhase]

\* clamp(Math.round(aiDurRaw || fixedDur), 5, 45)
aiDurOf(duration) ==
    clamp(IF duration.isNum /\ duration.tenths # 0
          THEN roundTenths(duration.tenths) ELSE FIXED_GREEN, AI_MIN, AI_MAX)

Abs(n) == IF n < 0 THEN -n ELSE n

modelImprovedNonStrict(resp, targetDur) ==
    IF resp.improved = "true" THEN TRUE
    ELSE IF resp.improved = "false" THEN FALSE
    ELSE Abs(aiDurOf(resp.duration) - targetDur) <= Abs(FIXED_GREEN - targetDur)

modelImproved(resp, targetDur) ==
    IF resp.improved = "true" THEN TRUE
    ELSE IF resp.improved = "false" THEN FALSE
    ELSE Abs(aiDurOf(resp.duration) - targetDur) < Abs(FIXED_GREEN - targetDur)

aiSettleRemotePhase(S, R, resp) ==
    LET Q == IF resp.ok /\ resp.nextPhase \in 1..4 THEN [R EXCEPT !.nextId = resp.nextPhase]
             ELSE R
        T == IF ~resp.ok THEN heuristic(S, Q)
             ELSE IF resp.duration.isNum /\ modelImproved(resp, Q.targetDur)
             THEN pushNext(S, Q.nextId, aiDurOf(resp.duration))
             ELSE IF resp.duration.isNum THEN pushNext(S, Q.nextId, FIXED_GREEN)
             ELSE heuristic(S, Q)
    IN [T EXCEPT !.aiPending = FALSE]

aiSettleSilentReject(S, R, resp) ==
    LET T == IF ~resp.ok THEN heuristic(S, R)
             ELSE IF resp.duration.isNum /\ modelImproved(resp, R.targetDur)
             THEN pushNext(S, R.nextId, aiDurOf(resp.duration))
             ELSE IF resp.duration.isNum THEN S
             ELSE heuristic(S, R)
    IN [T EXCEPT !.aiPending = FALSE]

\* the rest of _callAI, from the settled fetch to the end
aiSettle(S, R, resp) ==
    LET T == IF ~resp.ok THEN heuristic(S, R)
             ELSE IF resp.duration.isNum /\ modelImproved(resp, R.targetDur)
             THEN pushNext(S, R.nextId, aiDurOf(resp.duration))
             ELSE IF resp.duration.isNum THEN pushNext(S, R.nextId, FIXED_GREEN)
             ELSE heuristic(S, R)
    IN [T EXCEPT !.aiPending = FALSE]

simTickAIBlocking(S, dt, ready) ==
    IF S.aiPending THEN [sim |-> S, req |-> NoReq, issued |-> FALSE]
    ELSE LET ended == lightTickEnds(S.light, dt)
             A == [S EXCEPT !.simTime = S.simTime + dt, !.light = lightTick(S.light, dt)]
             C == IF ended # NoPhase THEN callAI(A, ended, ready)
                  ELSE [sim |-> A, req |-> NoReq, issued |-> FALSE]
             B == moveFrom(C.sim, 1, dt)
         IN [sim |-> [B EXCEPT !.vehicles = SelectSeq(B.vehicles, LAMBDA v : ~v.done)],
             req |-> C.req, issued |-> C.issued]

\* Simulation.tick(dt) in mode 'ai': light.tick calls onPhaseEnd, and so
\* _callAI, before the vehicles move
simTickAI(S, dt, ready) ==
    LET ended == lightTickEnds(S.light, dt)
        A == [S EXCEPT !.simTime = S.simTime + dt, !.light = lightTick(S.light, dt)]
        C == IF ended # NoPhase THEN callAI(A, ended, ready)
             ELSE [sim |-> A, req |-> NoReq, issued |-> FALSE]
        B == moveFrom(C.sim, 1, dt)
    IN [sim |-> [B EXCEPT !.vehicles = SelectSeq(B.vehicles, LAMBDA v : ~v.done)],
        req |-> C.req, issued |-> C.issued]

(***************************************************************************)
(* TrafficMaster.  The 32-bit seed is kept as two 16-bit halves so that the *)
(* product with the multiplier stays within machine integers; times are in  *)
(* time units.                                                              *)
(***************************************************************************)
LCG_SEED == 1337

\* 1664525 = MulHi * 2^16 + MulLo and 1013904223 = IncHi * 2^16 + IncLo
Half == 65536

MulHi == 25

MulLo == 26125

IncHi == 15470

IncLo == 62303

\* SPAWN_RATE * 2^32 = 17179869.184 = SpawnHi * 2^16 + SpawnLo + 0.184
SpawnHi == 262

SpawnLo == 9437

SpawnOrder == <<"north", "south", "east", "west">>

NewTrafficMaster ==
    [ seedHi |-> LCG_SEED \div Half,
      seedLo |-> LCG_SEED % Half,
      queue  |-> <<>>,
      t      |-> 0 ]

\* _rng(): the source after the draw; the value drawn is its seed / 2^32
rng(M) ==
    LET a == M.seedLo * MulLo
        b == M.seedHi * MulLo + M.seedLo * MulHi
        lo == (a % Half) + IncLo
        hi == (a \div Half) + b + IncHi + (lo \div Half)
    IN [M EXCEPT !.seedLo = lo % Half, !.seedHi = hi % Half]

\* this._rng() < CONFIG.SPAWN_RATE, for the source after the draw
belowSpawnRate(M) ==
    M.seedHi < SpawnHi \/ (M.seedHi = SpawnHi /\ M.seedLo <= SpawnLo)

\* the background loop of tick from pair k (0..11) on: the source and the events pushed
RECURSIVE background(_, _, _)
background(M, k, events) ==
    IF k >= Len(SpawnOrder) * N_LANES THEN [master |-> M, events |-> events]
    ELSE LET R == rng(M)
             ev == [dir |-> SpawnOrder[(k \div N_LANES) + 1], lane |-> k % N_LANES]
         IN background(R, k + 1, IF belowSpawnRate(R) THEN Append(events, ev) ELSE events)

\* the number of leading queue entries whose time has arrived
RECURSIVE dueCountStrict(_, _)
dueCountStrict(queue, t) ==
    IF queue # <<>> /\ Head(queue).time < t THEN 1 + dueCountStrict(Tail(queue), t) ELSE 0

RECURSIVE dueCount(_, _)
dueCount(queue, t) ==
    IF queue # <<>> /\ Head(queue).time <= t THEN 1 + dueCount(Tail(queue), t) ELSE 0

\* tick(dt): the source after the call and the event list it returns
masterTick(M, dt) ==
    LET t == M.t + dt
        n == dueCount(M.queue, t)
        drained == [i \in 1..n |-> [dir |-> M.queue[i].dir, lane |-> M.queue[i].lane]]
        A == [M EXCEPT !.t = t, !.queue = SubSeq(M.queue, n + 1, Len(M.queue))]
    IN background(A, 0, drained)

\* e placed behind every entry of the sorted queue that is not later than it
insertStable(sorted, e) ==
    LET k == Cardinality({i \in 1..Len(sorted) : sorted[i].time <= e.time})
    IN SubSeq(sorted, 1, k) \o <<e>> \o SubSeq(sorted, k + 1, Len(sorted))

\* e placed before every entry of the sorted queue that is not earlier than it
insertFront(sorted, e) ==
    LET k == Cardinality({i \in 1..Len(sorted) : sorted[i].time < e.time})
    IN SubSeq(sorted, 1, k) \o <<e>> \o SubSeq(sorted, k + 1, Len(sorted))

RECURSIVE stableSort(_, _)
stableSort(queue, sorted) ==
    IF queue = <<>> THEN sorted
    ELSE stableSort(Tail(queue), insertStable(sorted, Head(queue)))

RECURSIVE reverseTieSort(_, _)
reverseTieSort(queue, sorted) ==
    IF queue = <<>> THEN sorted
    ELSE reverseTieSort(Tail(queue), insertFront(sorted, Head(queue)))

\* a sort that may leave entries of equal time in either order
sortOutcomesUnstable(queue) == {stableSort(queue, <<>>), reverseTieSort(queue, <<>>)}

\* _sort(): the queues the call can leave.  Array.prototype.sort with the
\* comparator a.time - b.time is stable, so there is one.
sortOutcomes(queue) == {stableSort(queue, <<>>)}

\* the pushes of injectDir: one event per lane, 0.05 s + 0.4 s * lane from now
injectPushed(M, dir) ==
    M.queue \o [i \in 1..N_LANES |-> [time |-> M.t + (i - 1) * 8 + 1, dir |-> dir, lane |-> i - 1]]

\* injectDir(dir): the sources the call can leave
injectDir(M, dir) == {[M EXCEPT !.queue = q] : q \in sortOutcomes(injectPushed(M, dir))}

\* the pushes of bulkAdd for one arm: n per lane, 0.5 s * i + 0.15 s * lane from now
bulkPushedArm(t, d, n) ==
    [j \in 1..(n * N_LANES) |->
        [time |-> t + ((j - 1) \div N_LANES) * 10 + ((j - 1) % N_LANES) * 3,
         dir |-> d, lane |-> (j - 1) % N_LANES]]

bulkPushedFirstArm(M, dir, n) ==
    IF dir = "all"
    THEN M.queue \o bulkPushedArm(M.t, "north", n)
    ELSE M.queue \o bulkPushedArm(M.t, dir, n)

bulkPushed(M, dir, n) ==
    IF dir = "all"
    THEN M.queue \o bulkPushedArm(M.t, "north", n) \o bulkPushedArm(M.t, "south", n)
                 \o bulkPushedArm(M.t, "east", n) \o bulkPushedArm(M.t, "west", n)
    ELSE M.queue \o bulkPushedArm(M.t, dir, n)

\* bulkAdd(dir, n): the sources the call can leave
bulkAdd(M, dir, n) == {[M EXCEPT !.queue = q] : q \in sortOutcomes(bulkPushed(M, dir, n))}

masterResetKeepsSeed(M) == [M EXCEPT !.queue = <<>>, !.t = 0]

\* reset(): the seed, the queue and the clock are assigned anew
masterReset(M) ==
    [M EXCEPT !.seedHi = LCG_SEED \div Half, !.seedLo = LCG_SEED % Half,
              !.queue = <<>>, !.t = 0]

(***************************************************************************)
(* SimManager and the page it runs in.  A world is the manager object (mgr) *)
(* with what lives outside it: Vehicle._uid, the animation-frame callbacks  *)
(* the browser holds (pending, in the order they were requested; rafSeq is  *)
(* the last handle given out), the advisory request of mgr.simAI in flight  *)
(* and, in orphans, the requests of scenarios that reset() has replaced,    *)
(* each with the scenario object its suspended _callAI still refers to.     *)
(* startOff and pauseOff are the disabled attributes of the two buttons; a  *)
(* disabled button takes no click.  The page's markup is not part of the    *)
(* script: the pause button is taken disabled or enabled at load.           *)
(* The speed selector stays at its initial 2 and no CSV file is loaded.     *)
(* Frames are 50 ms or more apart, so that dt is at its cap of 0.10 s.      *)
(***************************************************************************)
\* dt of a frame at the cap of 0.10 s
FrameDt == 2

NoTs == 0

NoRaf == 0

\* dt when lastTs is null: 16.67 ms at speed 2 is 0.033 s, counted as one unit
FirstDt == 1

NewSimManager ==
    [ master  |-> NewTrafficMaster,
      simBase |-> NewSimulation("baseline"),
      simAI   |-> NewSimulation("ai"),
      running |-> FALSE,
      paused  |-> FALSE,
      globalT |-> 0,
      lastTs  |-> NoTs,
      rafId   |-> NoRaf ]

NewWorld ==
    [ mgr     |-> NewSimManager,
      startOff |-> FALSE,
      pauseOff |-> TRUE,
      uid     |-> 0,
      pending |-> <<>>,
      rafSeq  |-> 0,
      flight  |-> NoReq,
      orphans |-> <<>>,
      loops       |-> 0,       \* _loop bodies run in the last frame
      spawnedBase |-> <<>>,    \* the spawn calls made on simBase, in order
      spawnedAI   |-> <<>>,    \* the spawn calls made on simAI, in order
      dtBase      |-> 0,       \* the dt of the last tick call on simBase
      dtAI        |-> 0 ]      \* the dt of the last tick call on simAI

\* this.rafId = requestAnimationFrame(ts => this._loop(ts))
requestFrame(W) ==
    [W EXCEPT !.rafSeq = W.rafSeq + 1,
              !.pending = Append(W.pending, W.rafSeq + 1),
              !.mgr.rafId = W.rafSeq + 1]

\* cancelAnimationFrame(id)
cancelFrame(W, id) == [W EXCEPT !.pending = SelectSeq(W.pending, LAMBDA h : h # id)]

\* start()
mgrStart(W, ready) ==
    IF W.mgr.running THEN W
    ELSE LET C == callAI(W.mgr.simAI, NoPhase, ready)
             A == [W EXCEPT !.mgr.running = TRUE, !.mgr.lastTs = NoTs,
                            !.startOff = TRUE, !.pauseOff = FALSE,
                            !.mgr.simAI = C.sim,
                            !.flight = IF C.issued THEN C.req ELSE W.flight]
         IN requestFrame(A)

\* togglePause()
togglePause(W) ==
    LET A == [W EXCEPT !.mgr.paused = ~W.mgr.paused]
    IN IF ~A.mgr.paused THEN requestFrame([A EXCEPT !.mgr.lastTs = NoTs]) ELSE A

mgrResetKeepsAI(W) ==
    LET A == cancelFrame(W, W.mgr.rafId)
    IN [A EXCEPT !.mgr.running = FALSE, !.mgr.paused = FALSE, !.mgr.globalT = 0,
                 !.startOff = FALSE, !.pauseOff = TRUE,
                 !.uid = 0,
                 !.mgr.master = masterReset(W.mgr.master),
                 !.mgr.simBase = NewSimulation("baseline"),
                 !.spawnedBase = <<>>, !.spawnedAI = <<>>, !.dtBase = 0, !.dtAI = 0]

\* reset(): the scenarios are constructed anew; a request in flight keeps
\* the scenario object it was sent from
mgrReset(W) ==
    LET A == cancelFrame(W, W.mgr.rafId)
    IN [A EXCEPT !.mgr.running = FALSE, !.mgr.paused = FALSE, !.mgr.globalT = 0,
                 !.startOff = FALSE, !.pauseOff = TRUE,
                 !.uid = 0,
                 !.mgr.master = masterReset(W.mgr.master),
                 !.mgr.simBase = NewSimulation("baseline"),
                 !.mgr.simAI = NewSimulation("ai"),
                 !.spawnedBase = <<>>, !.spawnedAI = <<>>, !.dtBase = 0, !.dtAI = 0,
                 !.flight = NoReq,
                 !.orphans = IF W.flight.live
                             THEN Append(W.orphans, [sim |-> W.mgr.simAI, req |-> W.flight])
                             ELSE W.orphans]

\* Math.min((dtReal / 1000) * this.speed, 0.10) with dtReal = ts - lastTs, or
\* 16.67 when lastTs is null; a callback of the frame lastTs was taken in has dtReal 0
loopDt(M, ts) ==
    IF M.lastTs = NoTs THEN FirstDt ELSE IF ts = M.lastTs THEN 0 ELSE FrameDt

RECURSIVE spawnAllButFirst(_, _)
spawnAllButFirst(W, events) ==
    IF events = <<>> THEN W
    ELSE LET ev == Head(events)
             A == [W EXCEPT !.mgr.simBase = simSpawn(W.mgr.simBase, W.uid + 1, ev.dir, ev.lane),
                            !.spawnedBase = Append(W.spawnedBase, ev),
                            !.uid = W.uid + 1]
         IN spawnAllButFirst(IF Len(A.spawnedBase) = Len(A.spawnedAI) + 1 /\ ev.lane = 0
                             THEN A
                             ELSE [A EXCEPT !.mgr.simAI = simSpawn(A.mgr.simAI, A.uid + 1,
                                                                      ev.dir, ev.lane),
                                            !.spawnedAI = Append(A.spawnedAI, ev),
                                            !.uid = A.uid + 1],
                             Tail(events))

\* the loop over events: each is spawned in simBase, then in simAI
RECURSIVE spawnAll(_, _)
spawnAll(W, events) ==
    IF events = <<>> THEN W
    ELSE LET ev == Head(events)
         IN spawnAll([W EXCEPT !.mgr.simBase = simSpawn(W.mgr.simBase, W.uid + 1, ev.dir, ev.lane),
                               !.spawnedBase = Append(W.spawnedBase, ev),
                               !.mgr.simAI = simSpawn(W.mgr.simAI, W.uid + 2, ev.dir, ev.lane),
                               !.spawnedAI = Append(W.spawnedAI, ev),
                               !.uid = W.uid + 2],
                     Tail(events))

\* _loop(ts)
mgrLoop(W, ts, ready) ==
    IF W.mgr.paused \/ ~W.mgr.running THEN W
    ELSE LET dt == loopDt(W.mgr, ts)
             T == masterTick(W.mgr.master, dt)
             A == spawnAll([W EXCEPT !.mgr.lastTs = ts,
                                    !.mgr.globalT = W.mgr.globalT + dt,
                                    !.mgr.master = T.master],
                           T.events)
             B == simTick([A.mgr.simBase EXCEPT !.simTime = A.mgr.globalT], dt)
             C == simTickAI([A.mgr.simAI EXCEPT !.simTime = A.mgr.globalT], dt, ready)
         IN requestFrame([A EXCEPT !.mgr.simBase = B, !.dtBase = dt,
                                   !.mgr.simAI = C.sim, !.dtAI = dt,
                                   !.flight = IF C.issued THEN C.req ELSE A.flight,
                                   !.loops = A.loops + 1])

\* an animation frame: the browser runs the callbacks pending at its start,
\* in order and with one timestamp; callbacks requested meanwhile wait
RECURSIVE runCallbacks(_, _, _, _)
runCallbacks(W, n, ts, ready) ==
    IF n = 0 THEN W ELSE runCallbacks(mgrLoop(W, ts, ready), n - 1, ts, ready)

animationFrame(W, ts, ready) ==
    runCallbacks([W EXCEPT !.pending = <<>>, !.loops = 0], Len(W.pending), ts, ready)

(***************************************************************************)
(* State                                                                   *)
(***************************************************************************)
VARIABLES
    light,      \* a TrafficLight driven directly through its methods
    lastCall,   \* the last method call on light: its name, arguments, callback
    nSet,       \* setNextPhase calls made on light so far
    simBase,    \* a Simulation in mode 'baseline'
    uid,        \* Vehicle._uid
    tmA, tmB,   \* two TrafficMaster instances given the same calls
    outA, outB, \* the event lists their last tick returned
    nTick,      \* tick calls made on the sources so far
    nInject,    \* injectDir and bulkAdd calls made on the sources so far
    lastM,      \* the last call made on the sources and its arguments
    nReset,     \* reset calls made on the first source so far
    simAI,      \* a Simulation in mode 'ai'
    req,        \* its advisory request in flight, NoReq when there is none
    running,    \* SimManager.running: start has been called
    urlReady,   \* CONFIG.CLOUD_FN_URL is set to a usable address
    nReq,       \* advisory requests sent so far
    lastAI,     \* the last step of the adaptive scenario
    grant,      \* the last pair of phaseAllows queries and what they returned
    advice,     \* the last decision asked of the advisor alone and what it pushed
    post,       \* one HTTP request to getAITrafficTiming and how far its handler is
    world,      \* the SimManager and its page
    frame,      \* the timestamp of the last animation frame, in frames
    lastW,      \* the last step of the manager's world
    nClick      \* button clicks made so far

lightVars == <<light, lastCall, nSet>>

motionVars == <<simBase, uid>>

masterVars == <<tmA, tmB, outA, outB, nTick, nInject, lastM, nReset>>

aiVars == <<simAI, req, running, urlReady, nReq, lastAI>>

catalogVars == <<grant>>

adviceVars == <<advice, post>>

managerVars == <<world, frame, lastW, nClick>>

vars == <<light, lastCall, nSet, simBase, uid, tmA, tmB, outA, outB, nTick, nInject,
          lastM, nReset,
          simAI, req, running, urlReady, nReq, lastAI, grant, advice, post,
          world, frame, lastW, nClick>>

(***************************************************************************)
(* Bounds and input sets                                                   *)
(***************************************************************************)
MaxSetCalls == 2

\* dt of a tick: one driver frame at the 0.10 s cap, and a long step
LightDts == {2, 100}

PhaseIdInputs == {NumId(11), NumId(2), StrId("ns_l"), StrId("2")}

DurationInputs == {NaNDur, NumDur(0), NumDur(-20), NumDur(124), NumDur(610)}

NoCall == [op |-> "new", dt |-> 0, id |-> NumId(0), dur |-> NaNDur, ended |-> NoPhase]

(***************************************************************************)
(* The controller alone: any sequence of tick and setNextPhase calls       *)
(***************************************************************************)
\* no query made yet
NoGrant ==
    [ asked |-> FALSE, ph |-> "n", a |-> "north", m1 |-> "left",
      b |-> "north", m2 |-> "left", ga |-> FALSE, gb |-> FALSE ]

\* no decision asked yet
\* no request has reached the cloud function
NoPost ==
    [ stage |-> "idle", method |-> "none", cur |-> NaNDur, fixedNextId |-> 0,
      fixedGreen |-> 0, load |-> 0, calls |-> 0, status |-> 0, next_phase |-> 0,
      duration |-> 0, path |-> "none" ]

NoAdvice ==
    [ asked |-> FALSE, ready |-> FALSE, nextId |-> 0, load4 |-> 0, resp |-> NoResponse,
      target |-> 0, pushed |-> 0, override |-> NoPhase, calls |-> 0 ]

\* no call made on the sources yet
NoMasterCall == [op |-> "new", dir |-> "none", n |-> 0]

\* no step of the manager's world yet
NoWorldStep == [op |-> "new", resp |-> NoResponse, settled |-> NewSimulation("ai")]

\* no step of the adaptive scenario yet; resp is what a settle step settled with
NoStep == [op |-> "new", issued |-> FALSE, ended |-> NoPhase, resp |-> NoResponse]

InitRest ==
    /\ light = NewTrafficLight
    /\ lastCall = NoCall
    /\ nSet = 0
    /\ simBase = NewSimulation("baseline")
    /\ uid = 0
    /\ tmA = NewTrafficMaster /\ tmB = NewTrafficMaster
    /\ outA = <<>> /\ outB = <<>>
    /\ nTick = 0 /\ nInject = 0
    /\ lastM = NoMasterCall /\ nReset = 0
    /\ simAI = NewSimulation("ai")
    /\ req = NoReq
    /\ running = FALSE
    /\ nReq = 0
    /\ lastAI = NoStep
    /\ grant = NoGrant
    /\ advice = NoAdvice
    /\ post = NoPost
    /\ frame = 0
    /\ lastW = NoWorldStep
    /\ nClick = 0

InitLight == InitRest /\ urlReady = TRUE /\ world = NewWorld

LightTick(dt) ==
    /\ light' = lightTick(light, dt)
    /\ lastCall' = [NoCall EXCEPT !.op = "tick", !.dt = dt,
                                  !.ended = lightTickEnds(light, dt)]
    /\ UNCHANGED <<nSet, motionVars, masterVars, aiVars, catalogVars, adviceVars, managerVars>>

LightSetNextPhase(phaseId, duration) ==
    /\ nSet < MaxSetCalls
    /\ light' = setNextPhase(light, phaseId, duration)
    /\ lastCall' = [NoCall EXCEPT !.op = "setNextPhase", !.id = phaseId, !.dur = duration]
    /\ nSet' = nSet + 1
    /\ UNCHANGED <<motionVars, masterVars, aiVars, catalogVars, adviceVars, managerVars>>

NextLight ==
    \/ \E dt \in LightDts : LightTick(dt)
    \/ \E phaseId \in PhaseIdInputs, duration \in DurationInputs :
           LightSetNextPhase(phaseId, duration)

SpecLight == InitLight /\ [][NextLight]_vars

(***************************************************************************)
(* One scenario alone: any sequence of spawn and tick calls.  Vehicles are  *)
(* spawned at the instants of SpawnTimes, ticks are frames of 0.10 s.       *)
(***************************************************************************)
MaxVehicles == 2

MaxSimTime == 2100

SpawnTimes == {0, 40}

InitMotion == InitLight

MotionSpawn(dir, lane) ==
    /\ uid < MaxVehicles
    /\ simBase.simTime \in SpawnTimes
    /\ simBase' = simSpawn(simBase, uid + 1, dir, lane)
    /\ uid' = uid + 1
    /\ UNCHANGED <<lightVars, masterVars, aiVars, catalogVars, adviceVars, managerVars>>

MotionTick ==
    /\ simBase.simTime < MaxSimTime
    /\ simBase' = simTick(simBase, FrameDt)
    /\ UNCHANGED <<uid, lightVars, masterVars, aiVars, catalogVars, adviceVars, managerVars>>

NextMotion ==
    \/ \E dir \in Arms, lane \in 0..(N_LANES - 1) : MotionSpawn(dir, lane)
    \/ MotionTick

SpecMotion == InitMotion /\ [][NextMotion]_vars

\* The same with fewer arrivals, and tick called for as long as the page runs
LiveSpawnInputs == {<<"west", 1>>, <<"north", 2>>}

NextMotionLive ==
    \/ \E sp \in LiveSpawnInputs : MotionSpawn(sp[1], sp[2])
    \/ MotionTick

SpecMotionLive == InitMotion /\ [][NextMotionLive]_vars /\ WF_vars(MotionTick)

(***************************************************************************)
(* Two event sources, constructed alike and given the same calls            *)
(***************************************************************************)
MaxMasterTicks == 22

MaxInjections == 2

MaxResets == 1

\* the clock values at which the injection buttons and reset are pressed
InjectTimes == {0, 2, 32}

ResetTimes == {4, 34}

InjectInputs == {"north", "west"}

BulkInputs == {<<"east", 0>>, <<"south", 2>>, <<"all", 1>>}

InitMaster == InitLight

MasterTick ==
    /\ nTick < MaxMasterTicks
    /\ tmA' = masterTick(tmA, FrameDt).master
    /\ outA' = masterTick(tmA, FrameDt).events
    /\ tmB' = masterTick(tmB, FrameDt).master
    /\ outB' = masterTick(tmB, FrameDt).events
    /\ nTick' = nTick + 1
    /\ lastM' = [NoMasterCall EXCEPT !.op = "tick"]
    /\ UNCHANGED <<nInject, nReset, lightVars, motionVars, aiVars, catalogVars, adviceVars, managerVars>>

MasterInject(dir) ==
    /\ nInject < MaxInjections /\ tmA.t \in InjectTimes
    /\ tmA' \in injectDir(tmA, dir)
    /\ tmB' \in injectDir(tmB, dir)
    /\ nInject' = nInject + 1
    /\ lastM' = [NoMasterCall EXCEPT !.op = "injectDir", !.dir = dir]
    /\ UNCHANGED <<outA, outB, nTick, nReset, lightVars, motionVars, aiVars, catalogVars, adviceVars, managerVars>>

MasterBulk(dir, n) ==
    /\ nInject < MaxInjections /\ tmA.t \in InjectTimes
    /\ tmA' \in bulkAdd(tmA, dir, n)
    /\ tmB' \in bulkAdd(tmB, dir, n)
    /\ nInject' = nInject + 1
    /\ lastM' = [NoMasterCall EXCEPT !.op = "bulkAdd", !.dir = dir, !.n = n]
    /\ UNCHANGED <<outA, outB, nTick, nReset, lightVars, motionVars, aiVars, catalogVars, adviceVars, managerVars>>

\* reset() on the first source, while the second is replaced by a new TrafficMaster()
MasterReset ==
    /\ nReset < MaxResets /\ tmA.t \in ResetTimes
    /\ tmA' = masterReset(tmA)
    /\ tmB' = NewTrafficMaster
    /\ nReset' = nReset + 1
    /\ lastM' = [NoMasterCall EXCEPT !.op = "reset"]
    /\ UNCHANGED <<outA, outB, nTick, nInject, lightVars, motionVars, aiVars, catalogVars, adviceVars, managerVars>>

NextMaster ==
    \/ MasterTick
    \/ \E dir \in InjectInputs : MasterInject(dir)
    \/ \E b \in BulkInputs : MasterBulk(b[1], b[2])
    \/ MasterReset

SpecMaster == InitMaster /\ [][NextMaster]_vars

(***************************************************************************)
(* The adaptive scenario: start, frames of 0.10 s, spawns, and the fetch    *)
(* of a request in flight settling between two frames, at any time.         *)
(***************************************************************************)
MaxRequests == 2

MaxAITime == 600

AISpawnInputs == {<<"east", 1>>, <<"south", 0>>}

ResponseInputs ==
    {FailedResponse,
     DataResponse(NaNDur, "true", 3),
     DataResponse(NumDur(30), "true", 7),
     DataResponse(NumDur(50), "absent", 2),
     DataResponse(NumDur(500), "absent", 4),
     DataResponse(NumDur(500), "true", 2),
     DataResponse(NumDur(100), "false", 1)}

InitAI == InitRest /\ urlReady \in BOOLEAN /\ world = NewWorld

AIStart ==
    /\ ~running
    /\ running' = TRUE
    /\ LET C == callAI(simAI, NoPhase, urlReady)
       IN /\ simAI' = C.sim
          /\ req' = C.req
          /\ nReq' = IF C.issued THEN nReq + 1 ELSE nReq
          /\ lastAI' = [NoStep EXCEPT !.op = "start", !.issued = C.issued]
    /\ UNCHANGED <<urlReady, lightVars, motionVars, masterVars, catalogVars, adviceVars, managerVars>>

AITick ==
    /\ running
    /\ simAI.simTime < MaxAITime
    /\ lightTickEnds(simAI.light, FrameDt) # NoPhase /\ ~simAI.aiPending /\ urlReady
          => nReq < MaxRequests
    /\ LET C == simTickAI(simAI, FrameDt, urlReady)
       IN /\ simAI' = C.sim
          /\ req' = IF C.issued THEN C.req ELSE req
          /\ nReq' = IF C.issued THEN nReq + 1 ELSE nReq
          /\ lastAI' = [NoStep EXCEPT !.op = "tick", !.issued = C.issued,
                                        !.ended = lightTickEnds(simAI.light, FrameDt)]
    /\ UNCHANGED <<running, urlReady, lightVars, motionVars, masterVars, catalogVars, adviceVars, managerVars>>

AISpawn(dir, lane) ==
    /\ running
    /\ simAI.simTime = 0
    /\ uid < MaxVehicles
    /\ simAI' = simSpawn(simAI, uid + 1, dir, lane)
    /\ uid' = uid + 1
    /\ lastAI' = [NoStep EXCEPT !.op = "spawn"]
    /\ UNCHANGED <<simBase, req, running, urlReady, nReq, lightVars, masterVars, catalogVars, adviceVars, managerVars>>

\* the fetch resolves with an ok status: clearTimeout, then await res.json()
AIHeaders ==
    /\ req.live /\ req.stage = "headers"
    /\ req' = [req EXCEPT !.stage = "body"]
    /\ lastAI' = [NoStep EXCEPT !.op = "headers"]
    /\ UNCHANGED <<simAI, running, urlReady, nReq, lightVars, motionVars, masterVars, catalogVars, adviceVars, managerVars>>

\* the awaited promise settles: data needs the body; a failure is a timeout,
\* a transport error or a status not ok before it, an unparsable body after
AISettle(resp) ==
    /\ req.live
    /\ resp.ok => req.stage = "body"
    /\ simAI' = aiSettle(simAI, req, resp)
    /\ req' = NoReq
    /\ lastAI' = [NoStep EXCEPT !.op = "settle", !.resp = resp]
    /\ UNCHANGED <<running, urlReady, nReq, lightVars, motionVars, masterVars, catalogVars, adviceVars, managerVars>>

NextAI ==
    \/ AIStart
    \/ AITick
    \/ \E sp \in AISpawnInputs : AISpawn(sp[1], sp[2])
    \/ AIHeaders
    \/ \E resp \in ResponseInputs : AISettle(resp)

SpecAI == InitAI /\ [][NextAI]_vars

\* the 9 s abort timer fires while the response is still awaited: fetch rejects
AITimeout == req.live /\ req.stage = "headers" /\ AISettle(FailedResponse)

\* The timer is a browser timer: once set it fires unless cleared, and it is
\* cleared only when the response arrives.  Nothing bounds the wait for the
\* body, nor the frames the page is given.
SpecAILive == InitAI /\ [][NextAI]_vars /\ WF_vars(AITimeout)

(***************************************************************************)
(* The two controllers for all time.  After start the scenarios are ticked  *)
(* with one dt, as _loop does, and the requests of the adaptive one settle  *)
(* at any moment, or never.  No vehicles arrive, so that the heuristic      *)
(* target is 8 s; the remote duration is 15 s.  Ticks are 1 s long: every   *)
(* sub-phase lasts a whole number of seconds, and a response can settle     *)
(* before or after any transition.  simTime and the call counter, which no  *)
(* branch of the program reads, are held at 0, so that the behaviours are   *)
(* infinite over finitely many states.                                      *)
(***************************************************************************)
PairDt == UnitsPerSec

PairResponses == {FailedResponse, DataResponse(NumDur(150), "true", 3)}

Untimed(S) == [S EXCEPT !.simTime = 0, !.setCalls = 0]

InitPair == InitAI

\* one iteration of _loop: both scenarios
PairTick ==
    /\ running
    /\ simBase' = Untimed(simTick(simBase, PairDt))
    /\ LET C == simTickAI(simAI, PairDt, urlReady)
       IN /\ simAI' = Untimed(C.sim)
          /\ req' = IF C.issued THEN C.req ELSE req
          /\ lastAI' = [NoStep EXCEPT !.op = "tick", !.issued = C.issued,
                                        !.ended = lightTickEnds(simAI.light, PairDt)]
    /\ UNCHANGED <<uid, running, urlReady, nReq, lightVars, masterVars, catalogVars,
                   adviceVars, managerVars>>

NextPair ==
    \/ AIStart
    \/ PairTick
    \/ AIHeaders
    \/ \E resp \in PairResponses : AISettle(resp)

SpecPair == InitPair /\ [][NextPair]_vars

\* the adaptive scenario of the pair on its own
AdaptiveTick ==
    /\ running
    /\ LET C == simTickAI(simAI, PairDt, urlReady)
       IN /\ simAI' = Untimed(C.sim)
          /\ req' = IF C.issued THEN C.req ELSE req
          /\ lastAI' = [NoStep EXCEPT !.op = "tick", !.issued = C.issued,
                                        !.ended = lightTickEnds(simAI.light, PairDt)]
    /\ UNCHANGED <<running, urlReady, nReq, lightVars, motionVars, masterVars,
                   catalogVars, adviceVars, managerVars>>

NextAdaptive ==
    \/ AIStart
    \/ AdaptiveTick
    \/ AIHeaders
    \/ \E resp \in PairResponses : AISettle(resp)

\* _loop requests its next frame at its end: once started the ticks go on.
\* Nothing is assumed of the responses.
SpecAdaptiveLive == InitPair /\ [][NextAdaptive]_vars /\ WF_vars(AdaptiveTick)

(***************************************************************************)
(* The phase catalog, queried as TrafficLight.canGo and the renderer query  *)
(* it: phaseAllows applied to one phase and two (arm, movement) pairs.      *)
(***************************************************************************)
InitCatalog == InitLight

CatalogAsk(ph, a, m1, b, m2) ==
    /\ grant' = [ asked |-> TRUE, ph |-> ph, a |-> a, m1 |-> m1, b |-> b, m2 |-> m2,
                  ga |-> phaseAllows(ph, a, m1), gb |-> phaseAllows(ph, b, m2) ]
    /\ UNCHANGED <<lightVars, motionVars, masterVars, aiVars, adviceVars, managerVars>>

NextCatalog ==
    \E ph \in ALL_PHASES, a \in Arms, m1 \in Moves, b \in Arms, m2 \in Moves :
        CatalogAsk(ph, a, m1, b, m2)

SpecCatalog == InitCatalog /\ [][NextCatalog]_vars

(***************************************************************************)
(* The advisor's decision alone: one invocation of _callAI on a scenario    *)
(* just built, for a next phase, a demand of the next phase (in quarters)   *)
(* and an outcome of the request, or with no endpoint configured.           *)
(***************************************************************************)
MaxLoad4 == 100

AdvisorDurations ==
    {NaNDur, NumDur(0), NumDur(-20), NumDur(30), NumDur(86), NumDur(124), NumDur(150),
     NumDur(204), NumDur(449), NumDur(455), NumDur(500), NumDur(6000)}

AdvisorResponses ==
    {FailedResponse} \cup
    {DataResponse(d, f, 1) : d \in AdvisorDurations, f \in {"true", "false", "absent"}}

InitAdvisor == InitLight

AdvisorDecide(ready, nextId, load4, resp) ==
    /\ ~advice.asked
    /\ LET R == [live |-> TRUE, nextId |-> nextId, targetDur |-> targetDurOf(load4),
                 stage |-> "body"]
           S == [NewSimulation("ai") EXCEPT !.aiPending = TRUE]
           T == IF ready THEN aiSettle(S, R, resp)
                ELSE [heuristic(S, R) EXCEPT !.aiPending = FALSE]
       IN advice' = [ asked |-> TRUE, ready |-> ready, nextId |-> nextId, load4 |-> load4,
                      resp |-> IF ready THEN resp ELSE NoResponse,
                      target |-> R.targetDur,
                      pushed |-> T.light.greenDur[PHASE_NUM_MAP[nextId]],
                      override |-> T.light.nextOverride,
                      calls |-> T.setCalls ]
    /\ UNCHANGED <<post, lightVars, motionVars, masterVars, aiVars, catalogVars, managerVars>>

NextAdvisor ==
    \E ready \in BOOLEAN, nextId \in 1..4, load4 \in 0..MaxLoad4, resp \in AdvisorResponses :
        AdvisorDecide(ready, nextId, load4, resp)

SpecAdvisor == InitAdvisor /\ [][NextAdvisor]_vars

(***************************************************************************)
(* The cloud function getAITrafficTiming: one HTTP request, the handler's   *)
(* reading of its body, up to two calls of the language model and the       *)
(* answer.  Numbers are in tenths; a body field is a JSON value.            *)
(***************************************************************************)
FN_MIN_GREEN == 50

FN_MAX_GREEN == 150

FN_BASE_GREEN == 150

\* a JSON value: a field that is missing, a number, a string that reads as
\* a number, any other string, an object, and an object whose own valueOf
\* and toString members are not functions
Absent == [k |-> "absent", n |-> 0]

JNum(t) == [k |-> "num", n |-> t]

JStr(t) == [k |-> "str", n |-> t]

JText == [k |-> "text", n |-> 0]

JObj == [k |-> "obj", n |-> 0]

JBad == [k |-> "bad", n |-> 0]

\* ToBoolean, as the operator || applies it
truthy(v) == v.k \in {"str", "text", "obj", "bad"} \/ (v.k = "num" /\ v.n # 0)

\* Number(v), unary + and String(v) throw a TypeError on such an object
throwsOnConversion(v) == v.k = "bad"

\* Number(v) where it returns
toNumber(v) == IF v.k \in {"num", "str"} THEN NumDur(v.n) ELSE NaNDur

\* Math.round, on tenths
fnRound(t) == roundTenths(t) * 10

\* b.current_phase_id || b.current_phase || b.ended_phase || 0
currentPhaseField(id, phase, ended) ==
    IF truthy(id) THEN id ELSE IF truthy(phase) THEN phase
    ELSE IF truthy(ended) THEN ended ELSE JNum(0)

\* cw.includes(currentPhaseId) ? currentPhaseId : 1, then cw[(indexOf + 1) % 4]
fnFixedNextId(cur) ==
    LET c == IF cur.isNum /\ cur.tenths \in {10, 20, 30, 40} THEN cur.tenths \div 10 ELSE 1
    IN ((c - 1 + 1) % 4) + 1

\* clamp(Math.round(Number(b.fixed_green ?? BASE_GREEN) || BASE_GREEN), MIN, MAX)
fnFixedGreen(fg) ==
    LET x == toNumber(IF fg.k = "absent" THEN JNum(FN_BASE_GREEN) ELSE fg)
        y == IF x.isNum /\ x.tenths # 0 THEN x.tenths ELSE FN_BASE_GREEN
    IN clamp(fnRound(y), FN_MIN_GREEN, FN_MAX_GREEN)

\* Number(demand[fixedNextId] || 0), the queue counts of the body being absent
fnLoad(dem) ==
    LET x == toNumber(IF dem.k = "absent" THEN JNum(0) ELSE dem)
    IN IF x.isNum THEN x.tenths ELSE 0

\* clamp(Math.round(8 + load * 1.8), MIN_GREEN, MAX_GREEN)
fnTargetDur(load) ==
    clamp(((8000 + 180 * load + 500) \div 1000) * 10, FN_MIN_GREEN, FN_MAX_GREEN)

\* res.status(200).json(fallback(...)) of the catch block
fallback(P) ==
    [P EXCEPT !.stage = "answered", !.status = 200, !.next_phase = P.fixedNextId,
              !.duration = fnTargetDur(P.load), !.path = "fallback"]

\* the answer built from the model's JSON object
modelAnswer(P, data) ==
    LET durRaw == toNumber(data.duration)
        x == IF durRaw.isNum /\ durRaw.tenths # 0 THEN durRaw.tenths ELSE P.fixedGreen
    IN [P EXCEPT !.stage = "answered", !.status = 200, !.next_phase = P.fixedNextId,
                 !.duration = clamp(fnRound(x), FN_MIN_GREEN, FN_MAX_GREEN),
                 !.path = "model"]

\* the try block from the point where a callGemini settles
afterModel(P, out) ==
    IF out.k = "throw" THEN fallback(P)
    ELSE IF out.k = "text"
    THEN IF P.stage = "first" THEN [P EXCEPT !.stage = "retry", !.calls = P.calls + 1]
         ELSE fallback(P)
    ELSE IF throwsOnConversion(out.duration) \/ throwsOnConversion(out.reason)
    THEN fallback(P)
    ELSE modelAnswer(P, out)

\* the handler up to its first callGemini
receive(method, id, phase, ended, fg, dem) ==
    IF method = "OPTIONS"
    THEN [NoPost EXCEPT !.stage = "answered", !.method = method, !.status = 204]
    ELSE IF method # "POST"
    THEN [NoPost EXCEPT !.stage = "answered", !.method = method, !.status = 405]
    ELSE IF \E v \in {currentPhaseField(id, phase, ended), fg, dem} : throwsOnConversion(v)
    THEN [NoPost EXCEPT !.stage = "rejected", !.method = method]
    ELSE LET cur == toNumber(currentPhaseField(id, phase, ended))
         IN [NoPost EXCEPT !.stage = "first", !.method = method, !.cur = cur,
                           !.fixedNextId = fnFixedNextId(cur),
                           !.fixedGreen = fnFixedGreen(fg),
                           !.load = fnLoad(dem), !.calls = 1]

Methods == {"OPTIONS", "GET", "POST"}

PhaseIdValues ==
    {Absent, JNum(0), JNum(10), JNum(20), JNum(30), JNum(40), JNum(50), JNum(25),
     JStr(30), JText, JObj, JBad}

OtherPhaseValues == {Absent, JNum(40)}

FixedGreenValues == {Absent, JNum(150), JNum(124), JNum(0), JNum(30), JNum(300), JText, JBad}

DemandValues == {Absent, JNum(0), JNum(25), JNum(100), JNum(-100), JText, JBad}

DurationValues ==
    {Absent, JNum(0), JNum(-20), JNum(30), JNum(86), JNum(124), JNum(125), JNum(150),
     JNum(6000), JStr(100), JText, JObj, JBad}

ModelOutcomes ==
    {[k |-> "throw", duration |-> Absent, reason |-> Absent],
     [k |-> "text", duration |-> Absent, reason |-> Absent]} \cup
    {[k |-> "json", duration |-> d, reason |-> r] :
        d \in DurationValues, r \in {Absent, JText, JBad}}

InitFunction == InitLight

FnRequest(method, id, phase, ended, fg, dem) ==
    /\ post.stage = "idle"
    /\ post' = receive(method, id, phase, ended, fg, dem)
    /\ UNCHANGED <<advice, lightVars, motionVars, masterVars, aiVars, catalogVars, managerVars>>

FnModelSettles(out) ==
    /\ post.stage \in {"first", "retry"}
    /\ post' = afterModel(post, out)
    /\ UNCHANGED <<advice, lightVars, motionVars, masterVars, aiVars, catalogVars, managerVars>>

NextFunction ==
    \/ \E method \in Methods, id \in PhaseIdValues, phase \in OtherPhaseValues,
          ended \in OtherPhaseValues, fg \in FixedGreenValues, dem \in DemandValues :
          FnRequest(method, id, phase, ended, fg, dem)
    \/ \E out \in ModelOutcomes : FnModelSettles(out)

SpecFunction == InitFunction /\ [][NextFunction]_vars

(***************************************************************************)
(* The manager: clicks on start, pause / resume, reset and an injection     *)
(* button between animation frames, and the requests in flight settling,    *)
(* those of replaced scenarios included.                                    *)
(***************************************************************************)
MaxFrames == 5

MaxClicks == 4

ManagerInjectInputs == {"north"}

ManagerResponses == {FailedResponse, DataResponse(NumDur(300), "true", 3)}

InitManager ==
    /\ InitRest /\ urlReady = TRUE
    /\ world \in {[NewWorld EXCEPT !.pauseOff = off] : off \in BOOLEAN}

ManagerClick(op) ==
    /\ nClick < MaxClicks
    /\ op = "start" => ~world.startOff
    /\ op = "togglePause" => ~world.pauseOff
    /\ world' = IF op = "start" THEN mgrStart(world, urlReady)
                ELSE IF op = "togglePause" THEN togglePause(world)
                ELSE mgrReset(world)
    /\ nClick' = nClick + 1
    /\ lastW' = [NoWorldStep EXCEPT !.op = op]
    /\ UNCHANGED <<frame, urlReady, lightVars, motionVars, masterVars,
                   simAI, req, running, nReq, lastAI, catalogVars, adviceVars>>

ManagerInject(dir) ==
    /\ nClick < MaxClicks
    /\ \E M \in injectDir(world.mgr.master, dir) : world' = [world EXCEPT !.mgr.master = M]
    /\ nClick' = nClick + 1
    /\ lastW' = [NoWorldStep EXCEPT !.op = "injectDir"]
    /\ UNCHANGED <<frame, urlReady, lightVars, motionVars, masterVars,
                   simAI, req, running, nReq, lastAI, catalogVars, adviceVars>>

ManagerFrame ==
    /\ frame < MaxFrames
    /\ frame' = frame + 1
    /\ world' = animationFrame(world, frame + 1, urlReady)
    /\ lastW' = [NoWorldStep EXCEPT !.op = "frame"]
    /\ UNCHANGED <<nClick, urlReady, lightVars, motionVars, masterVars,
                   simAI, req, running, nReq, lastAI, catalogVars, adviceVars>>

\* the request of the current adaptive scenario passes to its body / settles
ManagerHeaders ==
    /\ world.flight.live /\ world.flight.stage = "headers"
    /\ world' = [world EXCEPT !.flight.stage = "body"]
    /\ lastW' = [NoWorldStep EXCEPT !.op = "headers"]
    /\ UNCHANGED <<frame, nClick, urlReady, lightVars, motionVars, masterVars,
                   simAI, req, running, nReq, lastAI, catalogVars, adviceVars>>

ManagerSettle(resp) ==
    /\ world.flight.live
    /\ resp.ok => world.flight.stage = "body"
    /\ world' = [world EXCEPT !.mgr.simAI = aiSettle(world.mgr.simAI, world.flight, resp),
                              !.flight = NoReq]
    /\ lastW' = [NoWorldStep EXCEPT !.op = "settle", !.resp = resp]
    /\ UNCHANGED <<frame, nClick, urlReady, lightVars, motionVars, masterVars,
                   simAI, req, running, nReq, lastAI, catalogVars, adviceVars>>

\* the request of a replaced scenario settles (the response and its body
\* taken together): its _callAI resumes on the scenario object it was called
\* on, which nothing else refers to any more
OrphanSettle(i, resp) ==
    /\ i \in 1..Len(world.orphans)
    /\ world' = [world EXCEPT !.orphans = SubSeq(world.orphans, 1, i - 1)
                                            \o SubSeq(world.orphans, i + 1, Len(world.orphans))]
    /\ lastW' = [NoWorldStep EXCEPT !.op = "orphanSettle", !.resp = resp,
                    !.settled = aiSettle(world.orphans[i].sim, world.orphans[i].req, resp)]
    /\ UNCHANGED <<frame, nClick, urlReady, lightVars, motionVars, masterVars,
                   simAI, req, running, nReq, lastAI, catalogVars, adviceVars>>

NextManager ==
    \/ \E op \in {"start", "togglePause", "reset"} : ManagerClick(op)
    \/ \E dir \in ManagerInjectInputs : ManagerInject(dir)
    \/ ManagerFrame
    \/ ManagerHeaders
    \/ \E resp \in ManagerResponses : ManagerSettle(resp)
    \/ \E i \in 1..MaxClicks, resp \in ManagerResponses : OrphanSettle(i, resp)

SpecManager == InitManager /\ [][NextManager]_vars

(***************************************************************************)
(* Helpers of the properties                                               *)
(***************************************************************************)
Perpendicular(a, b) == (a \in {"north", "south"}) # (b \in {"north", "south"})

Rotation == {FIXED_PHASE_SEQ[i] : i \in 1..Len(FIXED_PHASE_SEQ)}

\* the clockwise successor of a rotation member in N -> E -> S -> W
Successor(ph) == FIXED_PHASE_SEQ[((seqIndexOf(ph) + 1) % Len(FIXED_PHASE_SEQ)) + 1]

NextSubPhase(sp) ==
    IF sp = "green" THEN "yellow" ELSE IF sp = "yellow" THEN "allred" ELSE "green"

\* the step is a tick call on light / a setNextPhase call on light
IsLightTick == lastCall'.op = "tick" /\ nSet' = nSet

IsLightSet == lastCall'.op = "setNextPhase" /\ nSet' = nSet + 1

InvalidId(id) ==
    \/ id.type = "number" /\ ~(id.num \in 1..10)
    \/ id.type = "string" /\ ~(id.str \in ALL_PHASES)

OutOfRange(d) == d.isNum /\ (d.tenths < MIN_DUR * 10 \/ d.tenths > MAX_DUR * 10)

C5_SubPhaseCycle ==
    /\ light.subPhase = "green" /\ light.phaseKey = "n" /\ light.timer = 0
    /\ [][ light'.subPhase # light.subPhase =>
             /\ IsLightTick
             /\ light'.subPhase = NextSubPhase(light.subPhase)
             /\ light'.timer = 0 ]_vars

C5_Witness ==
    /\ lastCall.op = "tick" /\ lastCall.dt = 100
    /\ light.subPhase = "green" /\ light.phaseKey = "e" /\ light.timer = 0

(***************************************************************************)
(* C6  canGo holds only in sub-phase green and only for a pair the active   *)
(* phase allows; in yellow and all-red it holds for no pair.                *)
(***************************************************************************)
C6_CanGoOnlyGreen ==
    \A dir \in Arms, move \in Moves :
        /\ canGo(light, dir, move) =>
              light.subPhase = "green" /\ phaseAllows(light.phaseKey, dir, move)
        /\ light.subPhase \in {"yellow", "allred"} => ~canGo(light, dir, move)

C6_Witness ==
    /\ light.subPhase = "yellow" /\ light.phaseKey = "ns_l"
    /\ phaseAllows(light.phaseKey, "south", "left")

(***************************************************************************)
(* C7  stateFor is red when the active phase does not allow the pair or the *)
(* sub-phase is all-red, and is the sub-phase otherwise; it is green        *)
(* exactly when canGo holds.                                                *)
(***************************************************************************)
C7_StateFor ==
    \A dir \in Arms, move \in Moves :
        /\ (~phaseAllows(light.phaseKey, dir, move) \/ light.subPhase = "allred")
              => stateFor(light, dir, move) = "red"
        /\ (phaseAllows(light.phaseKey, dir, move) /\ light.subPhase # "allred")
              => stateFor(light, dir, move) = light.subPhase
        /\ stateFor(light, dir, move) = "green" <=> canGo(light, dir, move)

C7_Witness ==
    /\ light.subPhase = "allred" /\ light.phaseKey = "e"
    /\ phaseAllows(light.phaseKey, "east", "straight")

(***************************************************************************)
(* C8  A tick that expires all-red turns the controller green: on a pending *)
(* override, on the override, which is cleared, with the rotation pointer   *)
(* on it when it is a rotation member (and untouched otherwise); with no    *)
(* override, on the rotation's next member after the pointer.  The pointer  *)
(* is then on the active phase whenever that phase is a rotation member, so *)
(* the next transition without override goes to its clockwise successor.    *)
(***************************************************************************)
C8_AllRedExpiry ==
    [][ (IsLightTick /\ light.subPhase = "allred"
            /\ light.timer + lastCall'.dt >= ALL_RED_DUR * UnitsPerSec) =>
          /\ light'.subPhase = "green"
          /\ light'.nextOverride = NoPhase
          /\ IF light.nextOverride # NoPhase
             THEN /\ light'.phaseKey = light.nextOverride
                  /\ light.nextOverride \in Rotation =>
                        FIXED_PHASE_SEQ[light'.seqIdx + 1] = light.nextOverride
                  /\ light.nextOverride \notin Rotation => light'.seqIdx = light.seqIdx
             ELSE /\ light'.seqIdx = (light.seqIdx + 1) % Len(FIXED_PHASE_SEQ)
                  /\ light'.phaseKey = FIXED_PHASE_SEQ[light'.seqIdx + 1]
          /\ light.phaseKey \in Rotation /\ light.nextOverride = NoPhase =>
                light'.phaseKey = Successor(light.phaseKey) ]_vars

C8_Witness ==
    /\ lastCall.op = "tick" /\ light.subPhase = "green" /\ light.timer = 0
    /\ light.phaseKey = "ns_l" /\ light.nextOverride = NoPhase /\ nSet = 1

(***************************************************************************)
(* C9  setNextPhase with a phase id outside the catalog (a number outside   *)
(* 1..10, an unknown key) leaves the whole controller as it was.            *)
(***************************************************************************)
C9_InvalidIdNoOp ==
    [][ (IsLightSet /\ InvalidId(lastCall'.id)) => light' = light ]_vars

C9_Witness ==
    /\ lastCall.op = "setNextPhase" /\ InvalidId(lastCall.id)
    /\ nSet = 2 /\ light.nextOverride = "e"

(***************************************************************************)
(* C10 (as claimed)  setNextPhase with a valid phase id and a duration      *)
(* outside [5, 60] leaves the whole controller as it was.                   *)
(***************************************************************************)
C10_OutOfRangeNoOp ==
    [][ (IsLightSet /\ ~InvalidId(lastCall'.id) /\ OutOfRange(lastCall'.dur))
           => light' = light ]_vars

(***************************************************************************)
(* C10 (amended)  setNextPhase with a valid phase id and a duration outside *)
(* [5, 60] makes the phase the pending override and sets its green duration *)
(* to 5 for a duration below 5, to 60 for one above 60 and to the baseline  *)
(* 15 for a duration of 0; nothing else of the controller changes.          *)
(***************************************************************************)
C10_OutOfRangeClamped ==
    [][ (IsLightSet /\ ~InvalidId(lastCall'.id) /\ OutOfRange(lastCall'.dur)) =>
          LET k == phaseKeyOf(lastCall'.id)
              d == lastCall'.dur.tenths
              g == IF d = 0 THEN FIXED_GREEN ELSE IF d < MIN_DUR * 10 THEN MIN_DUR ELSE MAX_DUR
          IN light' = [light EXCEPT !.greenDur[k] = g, !.nextOverride = k] ]_vars

C10_Witness ==
    /\ lastCall.op = "setNextPhase" /\ lastCall.id = NumId(2)
    /\ lastCall.dur = NumDur(610)
    /\ light.greenDur["e"] = MAX_DUR /\ light.nextOverride = "e"

(***************************************************************************)
(* C2  No red-running: no approach vehicle has its leading edge beyond its  *)
(* arm's stop coordinate while canGo is false for its movement.             *)
(***************************************************************************)
\* the leading edge of v is strictly beyond the stop coordinate of its arm
BeyondStop(v) ==
    LET s == stopCoord(v.dir)
        half == CAR_L \div 2
    IN IF v.dir = "north" THEN (v.y - half) < s.val
       ELSE IF v.dir = "south" THEN (v.y + half) > s.val
       ELSE IF v.dir = "east" THEN (v.x + half) > s.val
       ELSE (v.x - half) < s.val

C2_NoRedRunning ==
    \A i \in 1..Len(simBase.vehicles) :
        LET v == simBase.vehicles[i]
        IN (v.phase = "approach" /\ ~canGo(simBase.light, v.dir, v.move)) => ~BeyondStop(v)

C4_NextIsSuccessor ==
    [][ (simAI.light.subPhase = "allred" /\ simAI'.light.subPhase = "green")
           => simAI'.light.phaseKey = Successor(simAI.light.phaseKey) ]_vars

(***************************************************************************)
(* C11  Every configured green duration of every phase is within [5, 60]    *)
(* seconds in every controller state, whatever durations setNextPhase was   *)
(* given (0, negative, not a number, above 60).                             *)
(***************************************************************************)
C11_GreenDurInRange ==
    \A ph \in ALL_PHASES : light.greenDur[ph] \in MIN_DUR..MAX_DUR

C11_Witness ==
    /\ lastCall.op = "setNextPhase" /\ lastCall.dur = NumDur(-20)
    /\ light.greenDur["ns_l"] = MIN_DUR /\ light.greenDur["e"] = MAX_DUR

(***************************************************************************)
(* C12  A setNextPhase with a valid phase p sets the green duration of p to *)
(* the duration rounded and clamped to [5, 60] (the baseline 15 for 0 or a  *)
(* non-number), leaves the durations of the other phases alone and makes p  *)
(* the pending override, replacing one already pending; a tick changes no   *)
(* configured duration, so the value stays until a later setNextPhase on p. *)
(***************************************************************************)
C12_DurationPersists ==
    [][ /\ (IsLightSet /\ ~InvalidId(lastCall'.id)) =>
              LET k == phaseKeyOf(lastCall'.id)
                  d == lastCall'.dur
                  r == IF d.isNum /\ d.tenths # 0 THEN roundTenths(d.tenths) ELSE FIXED_GREEN
                  g == IF r < MIN_DUR THEN MIN_DUR ELSE IF r > MAX_DUR THEN MAX_DUR ELSE r
              IN /\ light'.greenDur[k] = g
                 /\ \A ph \in ALL_PHASES \ {k} : light'.greenDur[ph] = light.greenDur[ph]
                 /\ light'.nextOverride = k
        /\ IsLightTick => light'.greenDur = light.greenDur ]_vars

\* the one call made was setNextPhase(2, 12.4); E has since been green and ended
C12_Witness ==
    /\ nSet = 1 /\ lastCall.op = "tick"
    /\ light.phaseKey = "w" /\ light.nextOverride = NoPhase
    /\ light.greenDur["e"] = 12

(***************************************************************************)
(* C13 (as claimed)  The phase-end notification is fired by the tick that   *)
(* takes the controller from green to yellow, with the key of the phase,    *)
(* and by no other tick.                                                    *)
(***************************************************************************)
C13_FiredAtGreenEnd ==
    [][ IsLightTick =>
          IF light.subPhase = "green" /\ light'.subPhase = "yellow"
          THEN lastCall'.ended = light.phaseKey
          ELSE lastCall'.ended = NoPhase ]_vars

(***************************************************************************)
(* C13 (amended)  The phase-end notification is fired by the tick that      *)
(* takes the controller from yellow to all-red, once per phase, with the    *)
(* key of the phase that is ending, and by no other tick.                   *)
(***************************************************************************)
C13_FiredAtYellowEnd ==
    [][ IsLightTick =>
          IF light.subPhase = "yellow" /\ light'.subPhase = "allred"
          THEN lastCall'.ended = light.phaseKey /\ light'.phaseKey = light.phaseKey
          ELSE lastCall'.ended = NoPhase ]_vars

C13_Witness ==
    /\ lastCall.op = "tick" /\ lastCall.ended = "ns_l"
    /\ light.subPhase = "allred" /\ light.phaseKey = "ns_l" /\ light.timer = 0

(***************************************************************************)
(* Helpers of the advisor's properties                                      *)
(***************************************************************************)
\* the step invokes _callAI: start, or a tick that ends a phase
Invoked == lastAI'.op = "start" \/ (lastAI'.op = "tick" /\ lastAI'.ended # NoPhase)

\* the id the invocation of the step names: the clockwise successor of the
\* phase that ended, E at start
InvokedNextId ==
    IF lastAI'.op = "tick" /\ lastAI'.ended \in Rotation
    THEN CHOOSE i \in 1..4 : PHASE_NUM_MAP[i] = Successor(lastAI'.ended)
    ELSE 2

\* round(8 + demand * 1.8) within [5, 45], for a demand given in quarters
HeuristicTarget(load4) ==
    LET r == (800 + 45 * load4 + 50) \div 100
    IN IF r < 5 THEN 5 ELSE IF r > 45 THEN 45 ELSE r

(***************************************************************************)
(* C14  Single-flight guard: a request is issued only when none is          *)
(* outstanding, so at most one is outstanding at any time; a tick that ends *)
(* a phase while one is outstanding issues none, leaves the outstanding     *)
(* request and its snapshot as they are and calls setNextPhase on nothing.  *)
(***************************************************************************)
C14_SingleFlight ==
    /\ ~req.live /\ ~simAI.aiPending
    /\ [][ /\ req'.live <=> simAI'.aiPending
           /\ lastAI'.issued => ~req.live /\ ~simAI.aiPending
           /\ (lastAI'.op = "tick" /\ lastAI'.ended # NoPhase /\ simAI.aiPending) =>
                 /\ ~lastAI'.issued /\ nReq' = nReq
                 /\ req' = req
                 /\ simAI'.setCalls = simAI.setCalls
                 /\ simAI'.light = lightTick(simAI.light, FrameDt) ]_vars

C14_Witness ==
    /\ lastAI.op = "tick" /\ lastAI.ended = "n" /\ ~lastAI.issued
    /\ req.live /\ simAI.aiPending /\ nReq = 1

C19_TicksNotBlocked ==
    [][ /\ (lastAI'.op = "tick" /\ simAI.aiPending) => simAI' = simTick(simAI, FrameDt)
        /\ lastAI'.op \in {"settle", "headers"} =>
              /\ simAI'.vehicles = simAI.vehicles /\ simAI'.simTime = simAI.simTime
              /\ simAI'.light.subPhase = simAI.light.subPhase
              /\ simAI'.light.timer = simAI.light.timer
              /\ simAI'.light.phaseKey = simAI.light.phaseKey ]_vars

\* with the start request still outstanding E has turned green by rotation
\* and the vehicle spawned on east/straight has entered the intersection
C19_Witness ==
    /\ req.live /\ nReq = 1 /\ lastAI.op = "tick"
    /\ simAI.light.phaseKey = "e" /\ simAI.light.subPhase = "green"
    /\ Len(simAI.vehicles) = 1 /\ simAI.vehicles[1].phase = "turning"

(***************************************************************************)
(* C17  Acceptance gate: for a response with a numeric duration, the remote *)
(* duration rounded and clamped to [5, 45] is pushed only if the improved   *)
(* flag is true or, the flag being absent, it is strictly closer to the     *)
(* heuristic target than the baseline green is; in every other case the     *)
(* baseline green duration is pushed.  A remote duration other than 0 that  *)
(* passes the gate is the one pushed.                                       *)
(***************************************************************************)
C17_AcceptanceGate ==
    (advice.asked /\ advice.ready /\ advice.resp.ok /\ advice.resp.duration.isNum) =>
        LET d == advice.resp.duration.tenths
            r == roundTenths(d)
            remote == IF r < AI_MIN THEN AI_MIN ELSE IF r > AI_MAX THEN AI_MAX ELSE r
            target == HeuristicTarget(advice.load4)
            gate == \/ advice.resp.improved = "true"
                    \/ /\ advice.resp.improved = "absent"
                       /\ Abs(remote - target) < Abs(FIXED_GREEN - target)
        IN /\ ~gate => advice.pushed = FIXED_GREEN
           /\ advice.pushed # FIXED_GREEN => (gate /\ advice.pushed = remote)
           /\ (gate /\ d # 0) => advice.pushed = remote
           /\ advice.override = PHASE_NUM_MAP[advice.nextId]

\* flag absent, target 10, remote 3 s clamped to 5: as far from 10 as the
\* baseline 15 is, so rejected
C17_Witness ==
    /\ advice.asked /\ advice.ready /\ advice.load4 = 4
    /\ advice.resp = DataResponse(NumDur(30), "absent", 1)
    /\ advice.target = 10 /\ advice.pushed = FIXED_GREEN

(***************************************************************************)
(* C18  Heuristic bound: for every demand from 0 upward the heuristic       *)
(* target lies within [5, 45], and every duration the advisor pushes        *)
(* (heuristic, accepted remote or baseline) lies within [5, 45].            *)
(***************************************************************************)
C18_AdvisorBound ==
    advice.asked =>
        /\ advice.target \in AI_MIN..AI_MAX
        /\ advice.pushed \in AI_MIN..AI_MAX
        /\ advice.calls = 1

C18_Witness ==
    /\ advice.asked /\ advice.load4 = MaxLoad4 /\ advice.resp = FailedResponse
    /\ advice.target = AI_MAX /\ advice.pushed = AI_MAX

(***************************************************************************)
(* C20  Every advisory request issued eventually ends, with a response or   *)
(* as a failure after the timeout, and the in-flight flag is then cleared:  *)
(* the flag never stays set forever.                                        *)
(***************************************************************************)
C20_RequestEnds == simAI.aiPending ~> ~simAI.aiPending

(***************************************************************************)
(* C23  Every scheduled event is returned by exactly one tick, the first    *)
(* tick that takes the clock to or past the event's time and none earlier;  *)
(* the scheduled events of a tick's result are in ascending time order and  *)
(* precede its background events.                                           *)
(***************************************************************************)
\* the entries of a queue whose time has arrived at clock t, in queue order
DueAt(queue, t) == SelectSeq(queue, LAMBDA e : e.time <= t)

NotDueAt(queue, t) == SelectSeq(queue, LAMBDA e : e.time > t)

C23_ScheduledOnce ==
    /\ [][ lastM'.op = "tick" =>
             LET due == DueAt(tmA.queue, tmA'.t)
                 drawn == background([tmA EXCEPT !.t = tmA'.t], 0, <<>>).events
             IN /\ \A k \in 1..(Len(due) - 1) : due[k].time <= due[k + 1].time
                /\ outA' = [k \in 1..Len(due) |-> [dir |-> due[k].dir, lane |-> due[k].lane]]
                              \o drawn
                /\ tmA'.queue = NotDueAt(tmA.queue, tmA'.t) ]_vars
    /\ [](\A i \in 1..Len(tmA.queue) :
             /\ tmA.queue[i].time >= tmA.t
             /\ lastM.op = "tick" => tmA.queue[i].time > tmA.t)

\* bulkAdd('south', 2) and injectDir('north') at clock 0, then the first tick:
\* it returns the two events due by 0.10 s and keeps the other seven
C23_Witness ==
    /\ nTick = 1 /\ lastM.op = "tick" /\ Len(tmA.queue) = 7
    /\ outA = <<[dir |-> "south", lane |-> 0], [dir |-> "north", lane |-> 0]>>

(***************************************************************************)
(* C24  injectDir(arm) adds one scheduled event for each of the 3 lanes of  *)
(* that arm and nothing else; bulkAdd(arm, n) adds n events per lane of     *)
(* that arm, bulkAdd('all', n) n events per lane of each of the 4 arms, and *)
(* none when n = 0; every added event has a time at or after the clock.     *)
(***************************************************************************)
CountIn(queue, dir, lane) ==
    Cardinality({i \in 1..Len(queue) : queue[i].dir = dir /\ queue[i].lane = lane})

Copies(queue, e) == Cardinality({i \in 1..Len(queue) : queue[i] = e})

\* the events per lane of arm dir that the call has to add
Owed(call, dir) ==
    IF call.op = "injectDir" THEN (IF call.dir = dir THEN 1 ELSE 0)
    ELSE IF call.dir \in {"all", dir} THEN call.n ELSE 0

C24_InjectCounts ==
    [][ lastM'.op \in {"injectDir", "bulkAdd"} =>
          /\ \A dir \in Arms, lane \in 0..(N_LANES - 1) :
                 CountIn(tmA'.queue, dir, lane)
                    = CountIn(tmA.queue, dir, lane) + Owed(lastM', dir)
          /\ \A i \in 1..Len(tmA'.queue) :
                 /\ tmA'.queue[i].dir \in Arms
                 /\ tmA'.queue[i].lane \in 0..(N_LANES - 1)
                 /\ Copies(tmA'.queue, tmA'.queue[i]) > Copies(tmA.queue, tmA'.queue[i])
                       => tmA'.queue[i].time >= tmA.t
          /\ \A i \in 1..Len(tmA.queue) :
                 Copies(tmA'.queue, tmA.queue[i]) >= Copies(tmA.queue, tmA.queue[i])
          /\ tmA'.t = tmA.t /\ tmA'.seedHi = tmA.seedHi /\ tmA'.seedLo = tmA.seedLo ]_vars

\* bulkAdd('all', 1) on a source whose clock has advanced and that holds
\* scheduled events already
C24_Witness ==
    /\ lastM = [op |-> "bulkAdd", dir |-> "all", n |-> 1]
    /\ tmA.t > 0 /\ Len(tmA.queue) > 4 * N_LANES

(***************************************************************************)
(* C25  After reset() a source that has gone through tick, injectDir and    *)
(* bulkAdd calls is a source as constructed (seed, empty schedule, clock    *)
(* 0), and from then on it returns the event lists that a new source given  *)
(* the same calls returns.                                                  *)
(***************************************************************************)
C25_ResetIsFresh ==
    /\ [][ lastM'.op = "reset" => tmA' = NewTrafficMaster ]_vars
    /\ [](nReset > 0 => (tmA = tmB /\ (lastM.op = "tick" => outA = outB)))

\* reset after ticks and an injection, then injectDir('west') and two ticks:
\* the second returns the event of lane 0
C25_Witness ==
    /\ nReset = 1 /\ nTick > 2 /\ nInject = 2 /\ tmA.t = 2 * FrameDt /\ lastM.op = "tick"
    /\ Len(tmA.queue) = 2 /\ tmA.queue[1].dir = "west"

(***************************************************************************)
(* C26  Wait accounting: each vehicle that goes from exit to done raises    *)
(* the passed count by 1 and the total wait by its accumulated wait, once   *)
(* (it is removed in the same tick); avgWait is the total wait divided by   *)
(* the passed count, and 0 when no vehicle has exited.                      *)
(***************************************************************************)
\* the vehicles of simBase that the step removes
Removed ==
    {i \in 1..Len(simBase.vehicles) :
        \A j \in 1..Len(simBase'.vehicles) :
            simBase'.vehicles[j].id # simBase.vehicles[i].id}

RECURSIVE WaitOf(_, _)
WaitOf(S, I) ==
    IF I = {} THEN 0
    ELSE LET i == CHOOSE k \in I : TRUE
         IN S.vehicles[i].waitSec + WaitOf(S, I \ {i})

C26_WaitAccounting ==
    /\ [][ /\ \A i \in Removed : simBase.vehicles[i].phase = "exit"
           /\ simBase'.passedCount = simBase.passedCount + Cardinality(Removed)
           /\ simBase'.totalWaitSec = simBase.totalWaitSec + WaitOf(simBase, Removed)
           /\ \A j \in 1..Len(simBase'.vehicles) : ~simBase'.vehicles[j].done ]_vars
    /\ [](/\ simBase.passedCount = 0 => avgWait(simBase).num = 0
          /\ avgWait(simBase).num * simBase.passedCount
                = simBase.totalWaitSec * avgWait(simBase).den)

\* two vehicles have left the canvas, 5.25 s of waiting between them
C26_Witness ==
    /\ simBase.passedCount = 2 /\ simBase.vehicles = <<>>
    /\ simBase.totalWaitSec > 0 /\ avgWait(simBase).den = 2

(***************************************************************************)
(* C27  Exit mapping: for each arm and movement buildPath assigns the exit  *)
(* arm of the clockwise table (left: the arm's left, straight: the same     *)
(* direction, right: the arm's right) and the exit lane of index 2 (outer)  *)
(* for left, 1 (middle) for straight, 0 (inner) for right.                  *)
(***************************************************************************)
ExitArmTable ==
    [north |-> [left |-> "west", straight |-> "north", right |-> "east"],
     east  |-> [left |-> "north", straight |-> "east", right |-> "south"],
     south |-> [left |-> "east", straight |-> "south", right |-> "west"],
     west  |-> [left |-> "south", straight |-> "west", right |-> "north"]]

ExitLaneIndex == [left |-> 2, straight |-> 1, right |-> 0]

\* the index in 0..2 that exitLaneX and exitLaneY read a global lane 3..5 as
localExitLane(lane) == IF lane >= N_LANES THEN lane - N_LANES ELSE lane

C27_ExitMapping ==
    \A i \in 1..Len(simBase.vehicles) :
        LET v == simBase.vehicles[i]
        IN v.phase \in {"turning", "exit"} =>
              /\ v.exitDir = ExitArmTable[v.dir][v.move]
              /\ localExitLane(v.exitLane) = ExitLaneIndex[v.move]

(***************************************************************************)
(* C28  A lone vehicle approaching while its movement is not green halts    *)
(* with its leading edge exactly at the stop coordinate, keeps its position *)
(* in every later tick while canGo stays false, and in the first tick in    *)
(* which canGo is true it moves and enters the turning phase.               *)
(***************************************************************************)
\* the coordinate of the leading edge of v on its travel axis
LeadingEdge(v) ==
    IF v.dir = "north" THEN v.y - CAR_L \div 2
    ELSE IF v.dir = "south" THEN v.y + CAR_L \div 2
    ELSE IF v.dir = "east" THEN v.x + CAR_L \div 2
    ELSE v.x - CAR_L \div 2

Lone == Len(simBase.vehicles) = 1 /\ simBase.vehicles[1].phase = "approach"

C28_HaltsAtStop ==
    /\ []((Lone /\ simBase.vehicles[1].waiting) =>
             LeadingEdge(simBase.vehicles[1]) = stopCoord(simBase.vehicles[1].dir).val)
    /\ [][ (Lone /\ simBase.vehicles[1].waiting /\ simBase'.simTime # simBase.simTime) =>
             LET v == simBase.vehicles[1]
                 w == simBase'.vehicles[1]
             IN IF canGo(simBase'.light, v.dir, v.move)
                THEN w.phase = "turning"
                ELSE w.x = v.x /\ w.y = v.y /\ w.phase = "approach" ]_vars

(***************************************************************************)
(* C29  Non-interference of next_phase: whatever the next_phase field of a  *)
(* response holds, the same phase id is passed to setNextPhase and the same *)
(* controller state is reached; the id pushed is the clockwise successor,   *)
(* computed at the invocation, of the phase that ended (E at start, with N  *)
(* green).                                                                  *)
(***************************************************************************)
\* what a response may carry as next_phase: absent (0), the ids 1..10, more
NextPhaseValues == 0..11

C29_NextPhaseIgnored ==
    [][ /\ lastAI'.op = "settle" =>
              /\ \A p \in NextPhaseValues :
                     aiSettle(simAI, req, [lastAI'.resp EXCEPT !.nextPhase = p]) = simAI'
              /\ simAI'.light.nextOverride = PHASE_NUM_MAP[req.nextId]
              /\ \A ph \in ALL_PHASES \ {PHASE_NUM_MAP[req.nextId]} :
                     simAI'.light.greenDur[ph] = simAI.light.greenDur[ph]
        /\ (Invoked /\ ~simAI.aiPending /\ urlReady) => req'.nextId = InvokedNextId
        /\ (Invoked /\ ~simAI.aiPending /\ ~urlReady) =>
              simAI'.light.nextOverride = PHASE_NUM_MAP[InvokedNextId] ]_vars

\* the request sent when E ended is answered with next_phase 7 and a
\* duration of 3 s flagged as improved: S is pushed, with 5 s
C29_Witness ==
    /\ lastAI.op = "settle" /\ lastAI.resp = DataResponse(NumDur(30), "true", 7)
    /\ simAI.light.nextOverride = "s" /\ simAI.light.greenDur["s"] = AI_MIN

(***************************************************************************)
(* C21  Reset isolation: after reset both scenarios are in their initial    *)
(* state (green on N with timer 0, every green duration at the baseline, no *)
(* pending override, no vehicles, accumulators 0, in-flight flag clear),    *)
(* and a response to a request issued before the reset that arrives after   *)
(* it changes nothing in the new scenarios.                                 *)
(***************************************************************************)
AsConstructed(S) ==
    /\ S.light.phaseKey = "n" /\ S.light.subPhase = "green" /\ S.light.timer = 0
    /\ \A ph \in ALL_PHASES : S.light.greenDur[ph] = FIXED_GREEN
    /\ S.light.nextOverride = NoPhase
    /\ S.vehicles = <<>> /\ S.simTime = 0
    /\ S.totalPassed = 0 /\ S.totalWaitSec = 0 /\ S.passedCount = 0
    /\ ~S.aiPending

C21_ResetIsolation ==
    [][ /\ lastW'.op = "reset" =>
              /\ AsConstructed(world'.mgr.simBase) /\ AsConstructed(world'.mgr.simAI)
              /\ ~world'.flight.live
        /\ lastW'.op = "orphanSettle" =>
              /\ world'.mgr = world.mgr
              /\ world'.flight = world.flight /\ world'.uid = world.uid ]_vars

\* start, reset and start again: the response to the first request arrives
\* while the second is in flight, and sets a duration of 30 s in the
\* scenario that was replaced
C21_Witness ==
    /\ lastW.op = "orphanSettle" /\ lastW.resp.ok
    /\ lastW.settled.light.greenDur["e"] = 30 /\ ~lastW.settled.aiPending
    /\ world.mgr.running /\ world.flight.live /\ world.mgr.simAI.aiPending
    /\ world.mgr.simAI.light.greenDur["e"] = FIXED_GREEN

(***************************************************************************)
(* C22  For any sequence of loop iterations and injections the baseline and *)
(* the adaptive scenario are given the same (arm, lane) spawns in the same  *)
(* order and the same dt in every iteration.                                *)
(***************************************************************************)
C22_SameFeed ==
    /\ world.spawnedBase = world.spawnedAI
    /\ world.dtBase = world.dtAI

\* two of the three vehicles of injectDir('north') have been spawned
C22_Witness ==
    /\ lastW.op = "frame" /\ world.dtBase = FrameDt
    /\ world.spawnedAI = <<[dir |-> "north", lane |-> 0], [dir |-> "north", lane |-> 1]>>
    /\ Len(world.mgr.simAI.vehicles) = 2 /\ Len(world.mgr.simBase.vehicles) = 2

(***************************************************************************)
(* C30  Under any interleaving of start, pause, resume and reset at most    *)
(* one animation-loop callback is pending at a time, so that the event      *)
(* source and each scenario are ticked once per animation frame, never      *)
(* twice.                                                                   *)
(***************************************************************************)
C30_OneCallback ==
    /\ Len(world.pending) <= 1
    /\ world.loops <= 1

(***************************************************************************)
(* C31  Two distinct approach vehicles of one arm and lane never overlap:   *)
(* their coordinates along the travel axis differ by at least one vehicle   *)
(* length.  And a vehicle does not advance in a tick in which the nearest   *)
(* approach vehicle ahead of it in its arm and lane is less than the        *)
(* minimum gap away, bumper to bumper.                                      *)
(***************************************************************************)
\* the coordinate of v along the travel axis of its arm
Along(v) == IF v.dir \in {"north", "south"} THEN v.y ELSE v.x

\* o is further along the travel axis of v than v
Ahead(v, o) ==
    IF v.dir \in {"north", "west"} THEN Along(o) < Along(v) ELSE Along(o) > Along(v)

SameQueue(v, o) ==
    /\ o.id # v.id /\ o.dir = v.dir /\ o.lane = v.lane
    /\ v.phase = "approach" /\ o.phase = "approach"

\* rear bumper of the one to front bumper of the other
Bumper(v, o) == Abs(Along(v) - Along(o)) - CAR_L

\* the scenario as the _move call of vehicle i finds it in tick(dt)
RECURSIVE SeenBy(_, _, _)
SeenBy(S, i, dt) ==
    IF i = 1 THEN [S EXCEPT !.simTime = S.simTime + dt, !.light = lightTick(S.light, dt)]
    ELSE LET P == SeenBy(S, i - 1, dt)
         IN IF P.vehicles[i - 1].done THEN P ELSE moveVehicle(P, i - 1, dt)

NoOverlap(S) ==
    \A i, j \in 1..Len(S.vehicles) :
        SameQueue(S.vehicles[i], S.vehicles[j]) =>
            Abs(Along(S.vehicles[i]) - Along(S.vehicles[j])) >= CAR_L

C31_NoOverlap ==
    /\ []NoOverlap(simBase)
    /\ [][ simBase'.simTime # simBase.simTime =>
             \A i \in 1..Len(simBase.vehicles) :
                 LET P == SeenBy(simBase, i, simBase'.simTime - simBase.simTime)
                     v == P.vehicles[i]
                 IN (\E j \in 1..Len(P.vehicles) :
                        /\ SameQueue(v, P.vehicles[j]) /\ Ahead(v, P.vehicles[j])
                        /\ Bumper(v, P.vehicles[j]) < CAR_GAP)
                    => \A k \in 1..Len(simBase'.vehicles) :
                          simBase'.vehicles[k].id = v.id =>
                             Along(simBase'.vehicles[k]) = Along(v) ]_vars

(***************************************************************************)
(* C32  A vehicle's accumulated wait rises only in a tick in which it is in *)
(* the approach phase, has reached the stop coordinate and its movement is  *)
(* not green, and then by exactly dt; in a tick in which it is halted by    *)
(* the gap to the vehicle ahead, moves, turns or exits its wait is          *)
(* unchanged; a halted vehicle keeps its position.                          *)
(***************************************************************************)
\* v is held by the signal in the tick that leads to the controller state L
HeldBySignal(v, L) == v.phase = "approach" /\ pastStop(v) /\ ~canGo(L, v.dir, v.move)

C32_WaitOnlyAtRed ==
    [][ \A i \in 1..Len(simBase.vehicles), k \in 1..Len(simBase'.vehicles) :
          LET v == simBase.vehicles[i]
              w == simBase'.vehicles[k]
              dt == simBase'.simTime - simBase.simTime
          IN w.id = v.id =>
               /\ w.waitSec = IF HeldBySignal(v, simBase'.light)
                              THEN v.waitSec + dt ELSE v.waitSec
               /\ (w.phase = "approach" /\ w.stopped) => (w.x = v.x /\ w.y = v.y) ]_vars

\* a vehicle halted behind one that waits at the stop line: the first has
\* accumulated no wait, the one ahead has
C32_Witness ==
    \E i, j \in 1..Len(simBase.vehicles) :
        LET v == simBase.vehicles[i]
            o == simBase.vehicles[j]
        IN /\ SameQueue(v, o) /\ Ahead(v, o) /\ Bumper(v, o) < CAR_GAP
           /\ v.stopped /\ ~v.waiting /\ v.waitSec = 0
           /\ o.waiting /\ o.waitSec > 0

Overshoot(v) ==
    IF v.dir \in {"north", "west"} THEN stopCoord(v.dir).val - LeadingEdge(v)
    ELSE LeadingEdge(v) - stopCoord(v.dir).val

\* the coordinate c on a travel axis is within the box or on its boundary
InBox(c) == Abs(c - MID) <= BOX_HALF

C34_OutsideBox ==
    \A i \in 1..Len(simBase.vehicles) :
        LET v == simBase.vehicles[i]
        IN v.phase = "approach" =>
             /\ Overshoot(v) <= CAR_SPD
             /\ ~InBox(LeadingEdge(v))
             /\ Abs(stopCoord(v.dir).val - MID) - CAR_SPD > BOX_HALF

\* a vehicle halted at red with its leading edge past the stop coordinate
C34_Witness ==
    \E i \in 1..Len(simBase.vehicles) :
        LET v == simBase.vehicles[i]
        IN v.phase = "approach" /\ v.waiting /\ Overshoot(v) > 0 /\ v.waitSec > 0

(***************************************************************************)
(* C39  Every spawned vehicle is eventually marked done and counted: with   *)
(* ticks continuing, no vehicle stays in the scenario forever, and at all   *)
(* times the number of vehicles spawned equals the number of live vehicles  *)
(* plus the passed count.                                                   *)
(***************************************************************************)
\* the vehicle with id k is one of this.vehicles
Live(k) == \E i \in 1..Len(simBase.vehicles) : simBase.vehicles[i].id = k

C39_AllServed ==
    /\ [](uid = Len(simBase.vehicles) + simBase.passedCount)
    /\ \A k \in 1..MaxVehicles : Live(k) ~> ~Live(k)

\* every vehicle spawned has left, the last of them after waiting at red
C39_Witness ==
    /\ uid >= 2 /\ simBase.passedCount = uid /\ ~(\E k \in 1..uid : Live(k))
    /\ simBase.totalPassed = uid /\ simBase.totalWaitSec > 0

FixedDur(sp) ==
    IF sp = "green" THEN FIXED_GREEN * UnitsPerSec
    ELSE IF sp = "yellow" THEN YELLOW_DUR * UnitsPerSec
    ELSE ALL_RED_DUR * UnitsPerSec

C36_BaselineFixed ==
    /\ [](/\ simBase.light.nextOverride = NoPhase
          /\ \A ph \in ALL_PHASES : simBase.light.greenDur[ph] = FIXED_GREEN
          /\ simBase.light.timer < FixedDur(simBase.light.subPhase))
    /\ [][ LET L == simBase.light
               M == simBase'.light
           IN /\ lastAI'.op # "tick" => M = L
              /\ lastAI'.op = "tick" =>
                   IF L.timer + PairDt >= FixedDur(L.subPhase)
                   THEN /\ M.subPhase = NextSubPhase(L.subPhase) /\ M.timer = 0
                        /\ M.phaseKey = IF L.subPhase = "allred"
                                        THEN Successor(L.phaseKey) ELSE L.phaseKey
                   ELSE /\ M.subPhase = L.subPhase /\ M.phaseKey = L.phaseKey
                        /\ M.timer = L.timer + PairDt ]_vars

\* the baseline has come round to N again, while the adaptive controller
\* runs shortened greens and has an override pending
C36_Witness ==
    /\ simBase.light.phaseKey = "n" /\ simBase.light.seqIdx = 0
    /\ simBase.light.subPhase = "green" /\ simBase.light.timer > 0
    /\ lastAI.op = "tick" /\ simAI.light.phaseKey = "e"
    /\ simAI.light.greenDur["e"] # FIXED_GREEN /\ simAI.light.greenDur["s"] # FIXED_GREEN
    /\ simAI.light.nextOverride = "s"

(***************************************************************************)
(* C37  The green duration of a phase is fixed from the tick it turns green *)
(* until it turns yellow: an advisor decision that arrives in the middle of *)
(* a green changes only the pending override and the duration of a future   *)
(* green, never the green time of the phase showing green.                  *)
(***************************************************************************)
C37_GreenTimeFixed ==
    [][ (/\ simAI.light.subPhase = "green" /\ simAI'.light.subPhase = "green"
         /\ simAI'.light.phaseKey = simAI.light.phaseKey)
        => simAI'.light.greenDur[simAI.light.phaseKey]
              = simAI.light.greenDur[simAI.light.phaseKey] ]_vars

(***************************************************************************)
(* C38  Liveness of the adaptive controller: with ticks continuing, each of *)
(* the phases N, E, S, W is green again and again, whenever the advisory    *)
(* responses arrive, whatever they hold and however they fail.              *)
(***************************************************************************)
GreenOn(ph) == simAI.light.phaseKey = ph /\ simAI.light.subPhase = "green"

C38_NoStarvation == \A ph \in Rotation : running ~> GreenOn(ph)

\* W is green for the second time in a row, after a late response
C38_Witness ==
    /\ GreenOn("w") /\ simAI.light.seqIdx = 3 /\ lastAI.op = "tick"
    /\ lastAI.ended = NoPhase /\ simAI.light.timer = 0
    /\ simAI.aiPending /\ req.live /\ req.nextId = 1 /\ req.stage = "body"

(***************************************************************************)
(* C40  Every POST to the cloud function is answered with status 200, with  *)
(* next_phase the clockwise successor of the request's current phase id     *)
(* (the successor of 1 when the id is not in 1..4) and a duration that is   *)
(* an integer within [MIN_GREEN, MAX_GREEN], on every path; the model is    *)
(* called at most twice per request.                                        *)
(***************************************************************************)
\* the clockwise successor of a phase id given in tenths
SuccessorId(cur) ==
    IF ~cur.isNum THEN 2
    ELSE IF cur.tenths = 10 THEN 2 ELSE IF cur.tenths = 20 THEN 3
    ELSE IF cur.tenths = 30 THEN 4 ELSE IF cur.tenths = 40 THEN 1 ELSE 2

Answered200(P) ==
    /\ P.stage = "answered" /\ P.status = 200
    /\ P.next_phase = SuccessorId(P.cur)
    /\ P.duration % 10 = 0
    /\ P.duration >= FN_MIN_GREEN /\ P.duration <= FN_MAX_GREEN

C40_AlwaysAnswered ==
    /\ post.calls <= 2
    /\ (post.method = "POST" /\ post.stage \notin {"first", "retry"}) => Answered200(post)

====
